---- MODULE Spec2Model ----
(***************************************************************************)
(* Verification model of the traceability micro-service core:              *)
(*   - modules/knowledge_graph.py  build_knowledge_graph_from_rag          *)
(*   - modules/document_ai.py      detect_requirements, context expansion, *)
(*                                 merge_bounding_boxes                    *)
(* Python strings are TLA+ strings; a character is a string of length 1.   *)
(* Python floats that are only compared or copied are integers scaled by   *)
(* 100 (confidence 0.85 is 85) or by 10 (box coordinate 0.1 is 1).         *)
(***************************************************************************)
EXTENDS Integers, Sequences, FiniteSets, TLC

VARIABLES
    (* ---- build_knowledge_graph_from_rag ---- *)
    chunks,             \* rag_output["chunks"], the ordered input
    test_cases,         \* the test_cases argument (<<>> models None / empty)
    pc,                 \* position of the current call
    chunk_i,            \* index of the chunk the fold is at
    nodes,              \* local list nodes
    edges,              \* local list edges
    seen_requirements,  \* local set
    seen_compliance,    \* local dict canonical id -> COMP_NNN
    seen_test_cases,    \* local set
    results,            \* values returned by the calls made so far
    (* ---- how the compliance mentions of a spelling run were written ---- *)
    mentions,           \* <<detected mention, relationship target>>: [key, raw]
    (* ---- parse_document_ai_response / detect_requirements ---- *)
    pages,              \* page texts of the document
    page_i,             \* number of pages processed
    doc_requirements,   \* per processed page, the list detect_requirements returned
    (* ---- merge_bounding_boxes ---- *)
    bboxes,             \* the list a caller holds
    merged,             \* <<>> before the call, <<[arg, ret]>> after: the list passed
                        \* (the caller's boxes in some order) and the dict returned
    (* ---- expand_requirement_context ---- *)
    exp_args,           \* [initial_sentence, full_line_text, max_sentences, max_chars]
    exp_outs,           \* the texts returned so far: exp_outs[1] for initial_sentence,
                        \* exp_outs[n+1] for exp_outs[n] against the same context
    (* ---- find_text_bounding_box ---- *)
    ftb_args,           \* [target_text, page_layout_elements, full_document_text]
    ftb_out,            \* <<>> before the call, <<ret>> after
    (* ---- build_traceability_chain ---- *)
    chain_args,         \* [requirement_id, knowledge_graph]
    chain_out,          \* <<>> before the call, <<chain_paths>> after
    (* ---- get_traceability_endpoint ---- *)
    trace_args,         \* [test_case_id, requirement_id, response_data]
    trace_out,          \* <<>> before the request, <<response>> after
    (* ---- calls of build_knowledge_graph_from_rag in flight at the same time ---- *)
    runs,               \* per call: its arguments, its position, its locals and
                        \* <<>> or <<the dict it returned>>
    (* ---- the upload pipeline: mask_chunks_with_dlp, query_rag_from_chunks, builder ---- *)
    pipe,               \* the request: gdpr_mode, the chunk list, the position, the
                        \* results collected so far and <<>> or <<the graph>>
    tasks               \* the coroutines handed to the asyncio.gather in progress

kgVars   == <<chunks, test_cases, pc, chunk_i, nodes, edges, seen_requirements,
             seen_compliance, seen_test_cases, results>>
normVars == <<mentions>>
detVars  == <<pages, page_i, doc_requirements>>
boxVars  == <<bboxes, merged>>
expVars  == <<exp_args, exp_outs>>
ftbVars  == <<ftb_args, ftb_out>>
chainVars == <<chain_args, chain_out>>
traceVars == <<trace_args, trace_out>>
runsVars == <<runs>>
pipeVars == <<pipe, tasks>>
vars     == <<kgVars, normVars, detVars, boxVars, expVars, ftbVars, chainVars, traceVars, runsVars, pipeVars>>

(***************************************************************************)
(* Python values                                                           *)
(***************************************************************************)
\* A key that is absent from a dict (dict.get returns its default for it).
Missing == "<missing>"

\* dict.get(key, default) on a record whose absent keys hold Missing.
Get(d, k, default) == IF d[k] = Missing THEN default ELSE d[k]

\* Truthiness of an optional string: None and "" are falsy.
Truthy(s) == s # Missing /\ s # ""

(***************************************************************************)
(* Python str operations                                                   *)
(***************************************************************************)
\* s[i] for a 1-based position i, "" outside the string
Ch(s, i) == IF 1 <= i /\ i <= Len(s) THEN SubSeq(s, i, i) ELSE ""

UpperLetters == "ABCDEFGHIJKLMNOPQRSTUVWXYZ"
LowerLetters == "abcdefghijklmnopqrstuvwxyz"
Digits       == "0123456789"
Whitespace   == " \t\n\r\f"

\* c in cls, for a character c and a string cls of characters
InClass(c, cls) == \E i \in 1..Len(cls) : Ch(cls, i) = c

IndexIn(c, cls) == CHOOSE i \in 1..Len(cls) : Ch(cls, i) = c

\* the characters of a class, as a set
CharSet(cls) == {Ch(cls, i) : i \in 1..Len(cls)}

\* the lower-case letter of each upper-case letter, and the reverse
ToLower == [c \in CharSet(UpperLetters) |-> Ch(LowerLetters, IndexIn(c, UpperLetters))]

ToUpper == [c \in CharSet(LowerLetters) |-> Ch(UpperLetters, IndexIn(c, LowerLetters))]

WhitespaceChars == CharSet(Whitespace)

LowerChar(c) == IF c \in DOMAIN ToLower THEN ToLower[c] ELSE c

UpperChar(c) == IF c \in DOMAIN ToUpper THEN ToUpper[c] ELSE c

\* the character at position i of s in the given casing: "lower", "upper", or
\* "title" (a letter is upper-cased at the start and after a space, lowered elsewhere)
CasedChar(s, i, casing) ==
    IF casing = "upper" \/ (casing = "title" /\ (i = 1 \/ Ch(s, i - 1) = " "))
    THEN UpperChar(Ch(s, i))
    ELSE LowerChar(Ch(s, i))

RECURSIVE MapChars(_, _, _, _)
\* s[lo..hi] with every character re-cased, built by halves
MapChars(s, lo, hi, casing) ==
    IF lo > hi THEN ""
    ELSE IF lo = hi THEN CasedChar(s, lo, casing)
    ELSE LET mid == (lo + hi) \div 2
         IN  MapChars(s, lo, mid, casing) \o MapChars(s, mid + 1, hi, casing)

\* str.lower()
Lower(s) == MapChars(s, 1, Len(s), "lower")

\* str.upper()
Upper(s) == MapChars(s, 1, Len(s), "upper")

IsSpace(s, i) == Ch(s, i) \in WhitespaceChars

\* the least element of a set of integers, d if the set is empty
MinOr(S, d) == IF S = {} THEN d ELSE CHOOSE x \in S : \A y \in S : x <= y

\* the greatest element of a set of integers, d if the set is empty
MaxOr(S, d) == IF S = {} THEN d ELSE CHOOSE x \in S : \A y \in S : y <= x

\* the elements of a set of integers in rising order
SortedSeqOf(S) ==
    [k \in 1..Cardinality(S) |-> CHOOSE x \in S : Cardinality({y \in S : y < x}) = k - 1]

\* first position >= i of s that holds no whitespace (Len(s)+1 if none)
LStripFrom(s, i) == MinOr({j \in i..Len(s) : ~IsSpace(s, j)}, Len(s) + 1)

\* last position <= j of s that holds no whitespace (0 if none)
RStripFrom(s, j) == MaxOr({i \in 1..j : ~IsSpace(s, i)}, 0)

\* str.strip()
Strip(s) == SubSeq(s, LStripFrom(s, 1), RStripFrom(s, Len(s)))

\* str.rstrip()
RStrip(s) == SubSeq(s, 1, RStripFrom(s, Len(s)))

\* str.startswith(p)
StartsWith(s, p) == Len(p) <= Len(s) /\ SubSeq(s, 1, Len(p)) = p

\* s[i:i+len(p)] == p, for a 1-based position i
MatchAt(s, i, p) == i + Len(p) - 1 <= Len(s) /\ SubSeq(s, i, i + Len(p) - 1) = p

\* p in s
Contains(s, p) == \E i \in 1..(Len(s) - Len(p) + 1) : MatchAt(s, i, p)

\* s[:n]
Prefix(s, n) == SubSeq(s, 1, IF n < Len(s) THEN n ELSE Len(s))

RECURSIVE DecStr(_)
\* str(n) for n >= 0
DecStr(n) == IF n < 10 THEN Ch(Digits, n + 1) ELSE DecStr(n \div 10) \o Ch(Digits, (n % 10) + 1)

\* f"{n:03d}"
Pad3(n) == IF n < 10 THEN "00" \o DecStr(n) ELSE IF n < 100 THEN "0" \o DecStr(n) ELSE DecStr(n)

\* the positions at which a maximal run of non-whitespace starts
WordStarts(s) == {i \in 1..Len(s) : ~IsSpace(s, i) /\ (i = 1 \/ IsSpace(s, i - 1))}

\* first whitespace position >= i (Len(s)+1 if none)
NextSpace(s, i) == MinOr({j \in i..Len(s) : IsSpace(s, j)}, Len(s) + 1)

\* str.split()
Words(s) ==
    LET st == SortedSeqOf(WordStarts(s))
    IN  [k \in DOMAIN st |-> SubSeq(s, st[k], NextSpace(s, st[k]) - 1)]

RECURSIVE JoinRange(_, _, _, _)
\* sep.join(parts[lo..hi]), built by halves
JoinRange(parts, lo, hi, sep) ==
    IF lo > hi THEN ""
    ELSE IF lo = hi THEN parts[lo]
    ELSE LET mid == (lo + hi) \div 2
         IN  JoinRange(parts, lo, mid, sep) \o sep \o JoinRange(parts, mid + 1, hi, sep)

\* sep.join(parts)
Join(parts, sep) == JoinRange(parts, 1, Len(parts), sep)

\* ' '.join(s.split()), which is also re.sub(r'\s+', ' ', s).strip()
NormalizeSpaces(s) == Join(Words(s), " ")

\* str.split('\n')
SplitLines(text) ==
    LET nl == SortedSeqOf({i \in 1..Len(text) : Ch(text, i) = "\n"})
        n  == Len(nl)
    IN  [k \in 1..(n + 1) |->
            SubSeq(text, IF k = 1 THEN 1 ELSE nl[k - 1] + 1,
                         IF k = n + 1 THEN Len(text) ELSE nl[k] - 1)]

WordChars == UpperLetters \o LowerLetters \o Digits \o "_"

IsWordChar(s, i) == InClass(Ch(s, i), WordChars)

\* re.search(r'\b' + w + r'\b', s) for a phrase w that starts and ends with a word
\* character
HasWord(s, w) ==
    \E i \in 1..(Len(s) - Len(w) + 1) :
        /\ MatchAt(s, i, w)
        /\ (i = 1 \/ ~IsWordChar(s, i - 1))
        /\ (i + Len(w) - 1 = Len(s) \/ ~IsWordChar(s, i + Len(w)))

\* [.!?]
IsPunct(s, i) == InClass(Ch(s, i), ".!?")

\* length of the run of characters of class cls that starts at position i
RunLen(s, i, cls) == MinOr({j \in i..Len(s) : ~InClass(Ch(s, j), cls)}, Len(s) + 1) - i

(***************************************************************************)
(* knowledge_graph.py: build_knowledge_graph_from_rag                      *)
(***************************************************************************)
\* {} (a dict with no key)
EmptyDict == [k \in {} |-> ""]

\* d[k] = v on a dict
DictSet(d, k, v) == [x \in (DOMAIN d) \cup {k} |-> IF x = k THEN v ELSE d[x]]

\* the keys of compliance_normalization
NormalizationKeys ==
    { "gdpr", "gdpr:2016/679", "general data protection regulation",
      "ccpa", "ccpa:2018", "california consumer privacy act",
      "hipaa", "hipaa:1996", "health insurance portability",
      "fda", "fda 21 cfr part 11", "21 cfr part 11",
      "soc2", "soc 2", "iso27001", "iso 27001" }

\* compliance_normalization[k]
compliance_normalization(k) ==
    CASE k \in {"gdpr", "gdpr:2016/679", "general data protection regulation"} -> "GDPR:2016/679"
      [] k \in {"ccpa", "ccpa:2018", "california consumer privacy act"} -> "CCPA:2018"
      [] k \in {"hipaa", "hipaa:1996", "health insurance portability"} -> "HIPAA:1996"
      [] k \in {"fda", "fda 21 cfr part 11", "21 cfr part 11"} -> "FDA:21CFR11"
      [] k \in {"soc2", "soc 2"} -> "SOC2:TypeII"
      [] k \in {"iso27001", "iso 27001"} -> "ISO:27001"

\* a plausible slip: the lookup key is stripped but not lower-cased
NormalizeCaseSensitive(raw_id) ==
    IF ~Truthy(raw_id) THEN "UNKNOWN"
    ELSE LET raw_lower == Strip(raw_id)
         IN  IF raw_lower \in NormalizationKeys THEN compliance_normalization(raw_lower) ELSE raw_id

normalize_compliance_id(raw_id) ==
    IF ~Truthy(raw_id) THEN "UNKNOWN"
    ELSE LET raw_lower == Strip(Lower(raw_id))
         IN  IF raw_lower \in NormalizationKeys THEN compliance_normalization(raw_lower) ELSE raw_id

\* the startswith chain that derives standard_type from the canonical id
StandardType(comp_canonical_id) ==
    IF StartsWith(comp_canonical_id, "GDPR") THEN "GDPR"
    ELSE IF StartsWith(comp_canonical_id, "CCPA") THEN "CCPA"
    ELSE IF StartsWith(comp_canonical_id, "HIPAA") THEN "HIPAA"
    ELSE IF StartsWith(comp_canonical_id, "FDA") THEN "FDA"
    ELSE IF StartsWith(comp_canonical_id, "SOC2") THEN "SOC2"
    ELSE IF StartsWith(comp_canonical_id, "ISO") THEN "ISO"
    ELSE "UNKNOWN"

\* title length kept before "..." is appended
TitleLen == 100

\* the REQUIREMENT node made from one detected requirement
RequirementNode(req_entity, page_number) ==
    LET text == Get(req_entity, "text", "")
    IN  [ id            |-> req_entity.id,
          type          |-> "REQUIREMENT",
          title         |-> IF Len(text) > TitleLen THEN Prefix(text, TitleLen) \o "..." ELSE text,
          text          |-> text,
          confidence    |-> req_entity.confidence,
          page_number   |-> page_number,
          priority      |-> IF Contains(Lower(text), "critical") THEN "High" ELSE "Medium",
          source        |-> Missing,
          standard_type |-> Missing,
          category      |-> Missing ]

RECURSIVE AddRequirementNodes(_, _, _, _, _)
\* step 1 of the chunk loop, from entity k on: [nodes, seen]
AddRequirementNodes(reqs, k, page_number, ns, seen) ==
    IF k > Len(reqs) THEN [nodes |-> ns, seen |-> seen]
    ELSE LET req_id == reqs[k].id
         IN  IF Truthy(req_id) /\ req_id \notin seen
             THEN AddRequirementNodes(reqs, k + 1, page_number,
                                      Append(ns, RequirementNode(reqs[k], page_number)),
                                      seen \cup {req_id})
             ELSE AddRequirementNodes(reqs, k + 1, page_number, ns, seen)

\* f"COMP_{len(seen_compliance) + 1:03d}"
CompKgId(seen) == "COMP_" \o Pad3(Cardinality(DOMAIN seen) + 1)

\* a plausible slip: the membership test is dropped and every mention mints a node
IsNewComplianceAlways(comp_canonical_id, seen) == TRUE

\* comp_canonical_id not in seen_compliance
IsNewCompliance(comp_canonical_id, seen) == comp_canonical_id \notin DOMAIN seen

\* the COMPLIANCE_STANDARD node dict of steps 2a and 2b
ComplianceNode(comp_kg_id, comp_canonical_id, text, confidence, source, page_number) ==
    [ id            |-> comp_kg_id,
      type          |-> "COMPLIANCE_STANDARD",
      title         |-> comp_canonical_id,
      text          |-> text,
      confidence    |-> confidence,
      page_number   |-> page_number,
      priority      |-> Missing,
      source        |-> source,
      standard_type |-> StandardType(comp_canonical_id),
      category      |-> Missing ]

RECURSIVE AddDetectedCompliance(_, _, _, _, _)
\* step 2a of the chunk loop, from entity k on: [nodes, seen]
AddDetectedCompliance(comps, k, page_number, ns, seen) ==
    IF k > Len(comps) THEN [nodes |-> ns, seen |-> seen]
    ELSE LET comp_entity == comps[k]
             comp_raw_id == Get(comp_entity, "id", Get(comp_entity, "standard", ""))
             comp_canonical_id == normalize_compliance_id(comp_raw_id)
             comp_kg_id == CompKgId(seen)
         IN  IF Truthy(comp_canonical_id) /\ IsNewCompliance(comp_canonical_id, seen)
             THEN AddDetectedCompliance(comps, k + 1, page_number,
                      Append(ns, ComplianceNode(comp_kg_id, comp_canonical_id,
                                     Get(comp_entity, "text", "Compliance standard: " \o comp_canonical_id),
                                     comp_entity.confidence, "detected_compliance", page_number)),
                      DictSet(seen, comp_canonical_id, comp_kg_id))
             ELSE AddDetectedCompliance(comps, k + 1, page_number, ns, seen)

RECURSIVE AddRelationshipTargets(_, _, _, _, _)
\* step 2b of the chunk loop, from relationship k on: [nodes, seen]
AddRelationshipTargets(rels, k, page_number, ns, seen) ==
    IF k > Len(rels) THEN [nodes |-> ns, seen |-> seen]
    ELSE LET rel == rels[k]
             target_id == rel.target_id
             target_class == Get(rel, "target_class", "UNKNOWN")
             comp_canonical_id == normalize_compliance_id(target_id)
             comp_kg_id == CompKgId(seen)
         IN  IF target_class = "COMPLIANCE_STANDARD" /\ Truthy(target_id)
                /\ IsNewCompliance(comp_canonical_id, seen)
             THEN AddRelationshipTargets(rels, k + 1, page_number,
                      Append(ns, ComplianceNode(comp_kg_id, comp_canonical_id,
                                     "Compliance standard: " \o comp_canonical_id,
                                     rel.confidence, "chunk_relationships", page_number)),
                      DictSet(seen, comp_canonical_id, comp_kg_id))
             ELSE AddRelationshipTargets(rels, k + 1, page_number, ns, seen)

\* a plausible slip: the map is looked up with the raw target id, not the canonical one
KgTargetIdRawKey(rel, seen) ==
    IF Get(rel, "target_class", "UNKNOWN") = "COMPLIANCE_STANDARD"
    THEN IF rel.target_id \in DOMAIN seen THEN seen[rel.target_id] ELSE rel.target_id
    ELSE rel.target_id

\* kg_target_id of step 3: seen_compliance.get(canonical id, target_id) for a
\* compliance target, the raw target_id otherwise
KgTargetId(rel, seen) ==
    IF Get(rel, "target_class", "UNKNOWN") = "COMPLIANCE_STANDARD"
    THEN LET comp_canonical_id == normalize_compliance_id(rel.target_id)
         IN  IF comp_canonical_id \in DOMAIN seen THEN seen[comp_canonical_id] ELSE rel.target_id
    ELSE rel.target_id

\* f"edge_{len(edges) + 1:03d}"
NextEdgeId(es) == "edge_" \o Pad3(Len(es) + 1)

\* step 3 keeps a relationship only if both ends are truthy
ValidRelationship(rel) == Truthy(rel.source_id) /\ Truthy(rel.target_id)

RECURSIVE AddRelationshipEdges(_, _, _, _, _)
\* step 3 of the chunk loop, from relationship k on: the edge list
AddRelationshipEdges(rels, k, page_number, es, seen) ==
    IF k > Len(rels) THEN es
    ELSE LET rel == rels[k]
             edge == [ id         |-> Get(rel, "edge_id", NextEdgeId(es)),
                       from       |-> rel.source_id,
                       to         |-> KgTargetId(rel, seen),
                       relation   |-> Get(rel, "type", "RELATED"),
                       confidence |-> rel.confidence,
                       source     |-> "chunk_relationships",
                       page       |-> IF rel.page = 0 THEN page_number ELSE rel.page ]
         IN  IF ValidRelationship(rel)
             THEN AddRelationshipEdges(rels, k + 1, page_number, Append(es, edge), seen)
             ELSE AddRelationshipEdges(rels, k + 1, page_number, es, seen)

\* confidence given to TEST_CASE nodes and VERIFIED_BY edges (0.9)
TestConfidence == 90

\* the TEST_CASE node dict
TestCaseNode(test_id, test_case) ==
    [ id            |-> test_id,
      type          |-> "TEST_CASE",
      title         |-> Get(test_case, "title", "Unknown Test"),
      text          |-> Get(test_case, "description", ""),
      confidence    |-> TestConfidence,
      page_number   |-> 0,
      priority      |-> Get(test_case, "priority", "Medium"),
      source        |-> Missing,
      standard_type |-> Missing,
      category      |-> Get(test_case, "category", "Unknown") ]

\* a plausible slip: the edge is appended for any declared requirement id
LinksDeclaredRequirement(derived_from, seen_req) == Truthy(derived_from)

\* derived_from and derived_from in seen_requirements
LinksKnownRequirement(derived_from, seen_req) ==
    Truthy(derived_from) /\ derived_from \in seen_req

RECURSIVE AddTestCaseList(_, _, _, _, _, _)
\* the test-case loop, from test case k on: [nodes, edges, seen]
AddTestCaseList(tcs, k, ns, es, seen_tc, seen_req) ==
    IF k > Len(tcs) THEN [nodes |-> ns, edges |-> es, seen |-> seen_tc]
    ELSE LET test_case == tcs[k]
             test_id == Get(test_case, "id", "TC_" \o Pad3(Cardinality(seen_tc) + 1))
             derived_from == test_case.derived_from
             edge == [ id         |-> NextEdgeId(es),
                       from       |-> test_id,
                       to         |-> derived_from,
                       relation   |-> "VERIFIED_BY",
                       confidence |-> TestConfidence,
                       source     |-> "test_generation",
                       page       |-> 0 ]
         IN  IF test_id \notin seen_tc
             THEN AddTestCaseList(tcs, k + 1, Append(ns, TestCaseNode(test_id, test_case)),
                      IF LinksKnownRequirement(derived_from, seen_req)
                      THEN Append(es, edge) ELSE es,
                      seen_tc \cup {test_id}, seen_req)
             ELSE AddTestCaseList(tcs, k + 1, ns, es, seen_tc, seen_req)

(***************************************************************************)
(* step 4: metadata                                                        *)
(***************************************************************************)
RECURSIVE SumConfidence(_, _)
SumConfidence(es, k) == IF k > Len(es) THEN 0 ELSE es[k].confidence + SumConfidence(es, k + 1)

\* round(100 * num / den) to the nearest integer, ties to even: round(x, 2) of
\* the quotient, in hundredths
RoundedHundredths(num, den) ==
    LET q == (100 * num) \div den
        r == (100 * num) % den
    IN  IF 2 * r > den \/ (2 * r = den /\ q % 2 = 1) THEN q + 1 ELSE q

\* number of list elements with field f equal to v
CountWhere(list, f, v) == Cardinality({i \in DOMAIN list : list[i][f] = v})

\* a histogram dict: value of field f -> number of elements, over the elements in sel
Histogram(list, sel, f) ==
    [v \in {list[i][f] : i \in sel} |-> Cardinality({i \in sel : list[i][f] = v})]

\* the endpoints of the edges in the order node_degrees meets them
EndpointSeq(es) == [k \in 1..(2 * Len(es)) |->
                      IF k % 2 = 1 THEN es[(k + 1) \div 2].from ELSE es[k \div 2].to]

RECURSIVE FirstSeenOrder(_, _, _)
\* the keys of node_degrees in insertion order
FirstSeenOrder(ends, k, acc) ==
    IF k > Len(ends) THEN acc
    ELSE FirstSeenOrder(ends, k + 1,
             IF \E j \in DOMAIN acc : acc[j] = ends[k] THEN acc ELSE Append(acc, ends[k]))

\* node_degrees[id]
Degree(es, id) == Cardinality({k \in 1..(2 * Len(es)) : EndpointSeq(es)[k] = id})

RECURSIVE InsertByCount(_, _, _)
\* item put into a list sorted by falling count, behind the items of equal count
InsertByCount(sorted, item, k) ==
    IF k > Len(sorted) THEN Append(sorted, item)
    ELSE IF sorted[k].connections < item.connections
         THEN SubSeq(sorted, 1, k - 1) \o <<item>> \o SubSeq(sorted, k, Len(sorted))
         ELSE InsertByCount(sorted, item, k + 1)

RECURSIVE SortedByCount(_, _, _)
\* sorted(node_degrees.items(), key=count, reverse=True): a stable sort
SortedByCount(items, k, acc) ==
    IF k > Len(items) THEN acc ELSE SortedByCount(items, k + 1, InsertByCount(acc, items[k], 1))

\* how many of the most connected nodes are reported
TopN == 5

top_connected_nodes(es) ==
    LET order == FirstSeenOrder(EndpointSeq(es), 1, <<>>)
        items == [k \in DOMAIN order |-> [node_id |-> order[k], connections |-> Degree(es, order[k])]]
        sorted == SortedByCount(items, 1, <<>>)
    IN  SubSeq(sorted, 1, IF Len(sorted) < TopN THEN Len(sorted) ELSE TopN)

Max(a, b) == IF a > b THEN a ELSE b

Metadata(ns, es, seen) ==
    [ total_nodes        |-> Len(ns),
      total_edges        |-> Len(es),
      requirement_nodes  |-> CountWhere(ns, "type", "REQUIREMENT"),
      compliance_nodes   |-> CountWhere(ns, "type", "COMPLIANCE_STANDARD"),
      test_case_nodes    |-> CountWhere(ns, "type", "TEST_CASE"),
      graph_density      |-> RoundedHundredths(Len(es), Max(1, Len(ns))),
      avg_confidence     |-> IF Len(es) > 0
                             THEN RoundedHundredths(SumConfidence(es, 1), 100 * Max(1, Len(es)))
                             ELSE 0,
      cross_page_links   |-> Cardinality({es[i].page : i \in DOMAIN es} \ {0}),
      compliance_by_type |-> Histogram(ns, {i \in DOMAIN ns : ns[i].type = "COMPLIANCE_STANDARD"},
                                       "standard_type"),
      edges_by_relation  |-> Histogram(es, DOMAIN es, "relation"),
      top_connected_nodes |-> top_connected_nodes(es),
      normalized_compliance_count |-> Cardinality(DOMAIN seen) ]

(***************************************************************************)
(* Inputs of the graph builder                                             *)
(***************************************************************************)
MaxChunks == 2      \* chunks per call
MaxRuns   == 2      \* calls made on the same input

\* all sequences over S of length at most n
BoundedSeqs(S, n) == UNION {[1..k -> S] : k \in 0..n}

ReqTextPlain    == "The system shall encrypt data"
ReqTextCritical == "Login is CRITICAL and must be audited"
ReqTextLong     == "The platform shall provide an administrative console that allows operators to review, approve and export audit records"

Req(id, text) == [id |-> id, text |-> text, confidence |-> 85]

CompEntity(id, standard, name, canonical_id) ==
    [id |-> id, standard |-> standard, name |-> name, canonical_id |-> canonical_id,
     text |-> Missing, confidence |-> 80]

Rel(source_id, target_id, target_class, type, edge_id) ==
    [source_id |-> source_id, target_id |-> target_id, target_class |-> target_class,
     type |-> type, edge_id |-> edge_id, confidence |-> 70, page |-> 0]

Chunk(reqs, comps, rels) ==
    [page_number |-> 1, detected_requirements |-> reqs, detected_compliance |-> comps,
     relationships |-> rels]

TestCase(id, derived_from) ==
    [id |-> id, title |-> Missing, description |-> Missing, category |-> "Functional",
     priority |-> Missing, derived_from |-> derived_from]

RelGdpr == Rel("REQ-001", "GDPR", "COMPLIANCE_STANDARD", "GOVERNED_BY", Missing)

\* the chunk of the two-chunk example: REQ-001 related to a GDPR mention
ChunkReqGdpr == Chunk(<<Req("REQ-001", ReqTextPlain)>>, <<>>, <<RelGdpr>>)

ChunkTemplates ==
    { ChunkReqGdpr,
      \* the three spellings of GDPR, as detections and as a relationship target
      Chunk(<<Req("REQ-001", ReqTextPlain), Req("REQ-002", ReqTextCritical)>>,
            <<CompEntity(" gdpr:2016/679 ", Missing, Missing, Missing),
              CompEntity(Missing, "General Data Protection Regulation", Missing, Missing)>>,
            <<Rel("REQ-002", "gdpr", "COMPLIANCE_STANDARD", "GOVERNED_BY", Missing)>>),
      \* a requirement whose id has the form of a minted compliance id
      Chunk(<<Req("COMP_001", ReqTextPlain)>>,
            <<CompEntity("CCPA", Missing, Missing, Missing)>>, <<>>),
      \* detector records (name, canonical_id) and a relationship between requirements
      Chunk(<<>>,
            <<CompEntity(Missing, Missing, "GDPR", "GDPR:2016/679"),
              CompEntity(Missing, Missing, "HIPAA", "HIPAA:45-CFR-164")>>,
            <<Rel("REQ-009", "REQ-002", "REQUIREMENT", Missing, Missing)>>),
      \* unrecognized strings, a relationship that supplies its own edge id
      Chunk(<<Req("REQ-002", ReqTextCritical)>>,
            <<CompEntity("ISO9001:2015", Missing, Missing, Missing)>>,
            <<Rel("REQ-002", "HIPAA:45-CFR-164", "COMPLIANCE_STANDARD", "REQUIRES_COMPLIANCE", "edge_001"),
              RelGdpr>>),
      \* entities and relationships with missing ids
      Chunk(<<Req("", ReqTextPlain), Req("REQ-003", ReqTextLong)>>, <<>>,
            <<Rel("", "ccpa:2018", "COMPLIANCE_STANDARD", "GOVERNED_BY", Missing),
              Rel("REQ-003", "", "COMPLIANCE_STANDARD", "GOVERNED_BY", Missing)>>),
      \* two regimes met first as relationship targets
      Chunk(<<Req("REQ-001", ReqTextPlain)>>,
            <<CompEntity("GDPR", Missing, Missing, Missing)>>,
            <<Rel("REQ-001", "California Consumer Privacy Act", "COMPLIANCE_STANDARD", "GOVERNED_BY", Missing),
              Rel("REQ-001", "SOC 2", "COMPLIANCE_STANDARD", "GOVERNED_BY", "edge_002")>>) }

TestCaseTC1 == TestCase("TC-1", "REQ-001")

\* the test_cases argument: None, one draft, a draft whose id is a requirement's
\* id, drafts without id, with an unknown requirement and with a repeated id,
\* and two drafts with the same id derived from different requirements
TestCaseLists ==
    { <<>>,
      <<TestCaseTC1>>,
      <<TestCase("REQ-002", "REQ-002"), TestCaseTC1>>,
      <<TestCase(Missing, "REQ-404"), TestCaseTC1, TestCase("TC-1", Missing)>>,
      <<TestCaseTC1, TestCase("TC-1", "REQ-002")>> }

\* chunk lists in document page order: the k-th chunk is page k
ChunkLists ==
    { [k \in DOMAIN tpl |-> [tpl[k] EXCEPT !.page_number = k]] :
        tpl \in BoundedSeqs(ChunkTemplates, MaxChunks) }

(***************************************************************************)
(* States in which a component is not running                              *)
(***************************************************************************)
IdleKG ==
    /\ chunks = <<>> /\ test_cases = <<>> /\ pc = "idle" /\ chunk_i = 0
    /\ nodes = <<>> /\ edges = <<>> /\ seen_requirements = {}
    /\ seen_compliance = EmptyDict /\ seen_test_cases = {} /\ results = <<>>

IdleNorm == mentions = <<>>

IdleDet == pages = <<>> /\ page_i = 0 /\ doc_requirements = <<>>

IdleBox == bboxes = <<>> /\ merged = <<>>

NoArgs == [k \in {} |-> ""]

IdleExp == exp_args = NoArgs /\ exp_outs = <<>>

IdleFtb == ftb_args = NoArgs /\ ftb_out = <<>>

IdleChain == chain_args = NoArgs /\ chain_out = <<>>

IdleTrace == trace_args = NoArgs /\ trace_out = <<>>

IdleRuns == runs = <<>>

IdlePipe == pipe = NoArgs /\ tasks = <<>>

(***************************************************************************)
(* build_knowledge_graph_from_rag as a state machine                       *)
(***************************************************************************)
InitKG ==
    /\ chunks \in ChunkLists
    /\ test_cases \in TestCaseLists
    /\ pc = "idle" /\ chunk_i = 0
    /\ nodes = <<>> /\ edges = <<>> /\ seen_requirements = {}
    /\ seen_compliance = EmptyDict /\ seen_test_cases = {} /\ results = <<>>
    /\ IdleNorm /\ IdleDet /\ IdleBox /\ IdleExp /\ IdleFtb /\ IdleChain /\ IdleTrace /\ IdleRuns /\ IdlePipe

ErrorResult ==
    [status |-> "error", nodes |-> <<>>, edges |-> <<>>, metadata |-> EmptyDict]

\* a call with no chunks returns the error dict at once
CallNoChunks ==
    /\ pc = "idle" /\ Len(results) < MaxRuns
    /\ chunks = <<>>
    /\ results' = Append(results, ErrorResult)
    /\ UNCHANGED <<chunks, test_cases, pc, chunk_i, nodes, edges, seen_requirements,
                   seen_compliance, seen_test_cases>>
    /\ UNCHANGED <<normVars, detVars, boxVars, expVars, ftbVars, chainVars, traceVars, runsVars, pipeVars>>

\* a plausible slip: the dedup maps are process-wide and survive from call to call
CallStartKeepsMaps ==
    /\ pc = "idle" /\ Len(results) < MaxRuns
    /\ chunks # <<>>
    /\ nodes' = <<>> /\ edges' = <<>>
    /\ chunk_i' = 1
    /\ pc' = "requirements"
    /\ UNCHANGED <<chunks, test_cases, results, seen_requirements, seen_compliance, seen_test_cases>>
    /\ UNCHANGED <<normVars, detVars, boxVars, expVars, ftbVars, chainVars, traceVars, runsVars, pipeVars>>

\* a call with chunks: the locals are created empty and the chunk loop is entered
CallStart ==
    /\ pc = "idle" /\ Len(results) < MaxRuns
    /\ chunks # <<>>
    /\ nodes' = <<>> /\ edges' = <<>>
    /\ seen_requirements' = {} /\ seen_compliance' = EmptyDict /\ seen_test_cases' = {}
    /\ chunk_i' = 1
    /\ pc' = "requirements"
    /\ UNCHANGED <<chunks, test_cases, results>>
    /\ UNCHANGED <<normVars, detVars, boxVars, expVars, ftbVars, chainVars, traceVars, runsVars, pipeVars>>

\* step 1 on the current chunk
StepRequirements ==
    /\ pc = "requirements"
    /\ LET r == AddRequirementNodes(chunks[chunk_i].detected_requirements, 1,
                                    chunks[chunk_i].page_number, nodes, seen_requirements)
       IN  nodes' = r.nodes /\ seen_requirements' = r.seen
    /\ pc' = "detected_compliance"
    /\ UNCHANGED <<chunks, test_cases, chunk_i, edges, seen_compliance, seen_test_cases, results>>
    /\ UNCHANGED <<normVars, detVars, boxVars, expVars, ftbVars, chainVars, traceVars, runsVars, pipeVars>>

\* step 2a on the current chunk
StepDetectedCompliance ==
    /\ pc = "detected_compliance"
    /\ LET r == AddDetectedCompliance(chunks[chunk_i].detected_compliance, 1,
                                      chunks[chunk_i].page_number, nodes, seen_compliance)
       IN  nodes' = r.nodes /\ seen_compliance' = r.seen
    /\ pc' = "relationship_targets"
    /\ UNCHANGED <<chunks, test_cases, chunk_i, edges, seen_requirements, seen_test_cases, results>>
    /\ UNCHANGED <<normVars, detVars, boxVars, expVars, ftbVars, chainVars, traceVars, runsVars, pipeVars>>

\* step 2b on the current chunk
StepRelationshipTargets ==
    /\ pc = "relationship_targets"
    /\ LET r == AddRelationshipTargets(chunks[chunk_i].relationships, 1,
                                       chunks[chunk_i].page_number, nodes, seen_compliance)
       IN  nodes' = r.nodes /\ seen_compliance' = r.seen
    /\ pc' = "relationship_edges"
    /\ UNCHANGED <<chunks, test_cases, chunk_i, edges, seen_requirements, seen_test_cases, results>>
    /\ UNCHANGED <<normVars, detVars, boxVars, expVars, ftbVars, chainVars, traceVars, runsVars, pipeVars>>

\* step 3 on the current chunk, then the next chunk or the test cases
StepRelationshipEdges ==
    /\ pc = "relationship_edges"
    /\ edges' = AddRelationshipEdges(chunks[chunk_i].relationships, 1,
                                     chunks[chunk_i].page_number, edges, seen_compliance)
    /\ IF chunk_i < Len(chunks)
       THEN chunk_i' = chunk_i + 1 /\ pc' = "requirements"
       ELSE chunk_i' = chunk_i /\ pc' = "test_cases"
    /\ UNCHANGED <<chunks, test_cases, nodes, seen_requirements, seen_compliance,
                   seen_test_cases, results>>
    /\ UNCHANGED <<normVars, detVars, boxVars, expVars, ftbVars, chainVars, traceVars, runsVars, pipeVars>>

\* the test-case loop (skipped when test_cases is None or empty)
StepTestCases ==
    /\ pc = "test_cases"
    /\ LET r == AddTestCaseList(test_cases, 1, nodes, edges, seen_test_cases, seen_requirements)
       IN  nodes' = r.nodes /\ edges' = r.edges /\ seen_test_cases' = r.seen
    /\ pc' = "metadata"
    /\ UNCHANGED <<chunks, test_cases, chunk_i, seen_requirements, seen_compliance, results>>
    /\ UNCHANGED <<normVars, detVars, boxVars, expVars, ftbVars, chainVars, traceVars, runsVars, pipeVars>>

\* step 4 and the return
Return ==
    /\ pc = "metadata"
    /\ results' = Append(results,
                         [status |-> "success", nodes |-> nodes, edges |-> edges,
                          metadata |-> Metadata(nodes, edges, seen_compliance)])
    /\ pc' = "idle"
    /\ UNCHANGED <<chunks, test_cases, chunk_i, nodes, edges, seen_requirements,
                   seen_compliance, seen_test_cases>>
    /\ UNCHANGED <<normVars, detVars, boxVars, expVars, ftbVars, chainVars, traceVars, runsVars, pipeVars>>

NextKG ==
    \/ CallNoChunks
    \/ CallStart
    \/ StepRequirements
    \/ StepDetectedCompliance
    \/ StepRelationshipTargets
    \/ StepRelationshipEdges
    \/ StepTestCases
    \/ Return

SpecKG == InitKG /\ [][NextKG]_vars

(***************************************************************************)
(* Properties of the graph builder                                         *)
(***************************************************************************)
\* no two elements of the list have the same id
DistinctIds(list) == \A i, j \in DOMAIN list : list[i].id = list[j].id => i = j

IdsOf(list) == {list[i].id : i \in DOMAIN list}

\* C1: in every returned node list no two nodes have the same id, whatever their
\* types, also when a requirement id or test-case id coincides with an id of
\* another type
C1_NoDuplicateNodeIds == \A r \in DOMAIN results : DistinctIds(results[r].nodes)

\* C2: in every returned graph both ends of every edge are ids of returned nodes
C2_EdgesReferenceNodes ==
    \A r \in DOMAIN results : \A k \in DOMAIN results[r].edges :
        /\ results[r].edges[k].from \in IdsOf(results[r].nodes)
        /\ results[r].edges[k].to \in IdsOf(results[r].nodes)

\* canonical id of a detected_compliance entity
CanonOfEntity(e) == normalize_compliance_id(Get(e, "id", Get(e, "standard", "")))

IsComplianceTarget(rel) ==
    Get(rel, "target_class", "UNKNOWN") = "COMPLIANCE_STANDARD" /\ Truthy(rel.target_id)

DetectedCanon(c) == {CanonOfEntity(c.detected_compliance[k]) : k \in DOMAIN c.detected_compliance}

TargetCanon(c) ==
    {normalize_compliance_id(c.relationships[k].target_id) :
        k \in {h \in DOMAIN c.relationships : IsComplianceTarget(c.relationships[h])}}

\* number of chunks whose steps 2a / 2b the current call has completed
DoneDetected == IF pc \in {"requirements", "detected_compliance"} THEN chunk_i - 1 ELSE chunk_i

DoneTargets ==
    IF pc \in {"requirements", "detected_compliance", "relationship_targets"}
    THEN chunk_i - 1 ELSE chunk_i

\* the canonical compliance ids the fold has seen so far
SeenCanon ==
    UNION ({DetectedCanon(chunks[k]) : k \in 1..DoneDetected}
           \cup {TargetCanon(chunks[k]) : k \in 1..DoneTargets})

ComplianceIdx == {i \in DOMAIN nodes : nodes[i].type = "COMPLIANCE_STANDARD"}

\* C3: in every state of the fold, canonical compliance ids and COMPLIANCE_STANDARD
\* nodes are one-to-one: each canonical id seen so far has exactly one node, titled
\* with it, and two canonical ids never get the same COMP_NNN id
C3_CanonicalOneToOne ==
    pc # "idle" =>
        LET canon  == SeenCanon
            titles == {nodes[i].title : i \in ComplianceIdx}
        IN  /\ \A c \in canon : Cardinality({i \in ComplianceIdx : nodes[i].title = c}) = 1
            /\ titles = canon
            /\ \A i, j \in ComplianceIdx : nodes[i].id = nodes[j].id => i = j
            /\ DOMAIN seen_compliance = canon
            /\ \A i \in ComplianceIdx : seen_compliance[nodes[i].title] = nodes[i].id

\* C3 witness: the fold is in its second chunk with two canonical ids minted
C3_Witness ==
    /\ pc = "relationship_edges" /\ chunk_i = 2
    /\ Cardinality(SeenCanon) >= 2
    /\ \E k \in DOMAIN chunks[2].relationships :
          /\ IsComplianceTarget(chunks[2].relationships[k])
          /\ normalize_compliance_id(chunks[2].relationships[k].target_id) \in DetectedCanon(chunks[1])

RECURSIVE ValidRelsUpTo(_)
\* the relationships of chunks 1..n that step 3 turns into edges, in order
ValidRelsUpTo(n) ==
    IF n = 0 THEN <<>>
    ELSE ValidRelsUpTo(n - 1) \o SelectSeq(chunks[n].relationships, ValidRelationship)

\* the two-chunk example: each chunk relates REQ-001 to a GDPR mention
ExampleChunks ==
    <<[ChunkReqGdpr EXCEPT !.page_number = 1], [ChunkReqGdpr EXCEPT !.page_number = 2]>>

\* C4: every edge built from a relationship whose target_class is COMPLIANCE_STANDARD
\* points at the COMP_NNN id of the single node titled with the normalized target;
\* two chunks relating REQ-001 to GDPR give one node GDPR:2016/679 and two edges to it
C4_ComplianceEdgeTargets ==
    pc # "idle" =>
        /\ LET rels == ValidRelsUpTo(Len(chunks))
           IN  \A k \in 1..Len(edges) :
                 (edges[k].source = "chunk_relationships" /\ IsComplianceTarget(rels[k])) =>
                    LET titled == {i \in ComplianceIdx :
                                     nodes[i].title = normalize_compliance_id(rels[k].target_id)}
                    IN  /\ Cardinality(titled) = 1
                        /\ \A i \in titled : edges[k].to = nodes[i].id
                        /\ StartsWith(edges[k].to, "COMP_")
        /\ (chunks = ExampleChunks /\ pc = "metadata") =>
              /\ Cardinality(ComplianceIdx) = 1
              /\ \A i \in ComplianceIdx :
                    /\ nodes[i].title = "GDPR:2016/679"
                    /\ Cardinality({k \in DOMAIN edges : edges[k].to = nodes[i].id}) = 2

\* C4 witness: the example graph is built
C4_Witness ==
    /\ chunks = ExampleChunks /\ pc = "metadata"
    /\ \E k \in DOMAIN edges : edges[k].from = "REQ-001" /\ edges[k].to = "COMP_001"

\* C6: all calls on the same ordered chunk list and test-case list return the same
\* nodes, edges (with every minted COMP_NNN and generated edge id) and metadata
C6_Deterministic == \A i, j \in DOMAIN results : results[i] = results[j]

\* C6 witness: two calls have returned a graph with minted ids
C6_Witness ==
    /\ Len(results) >= 2
    /\ results[2].status = "success"
    /\ \E k \in DOMAIN results[2].nodes : StartsWith(results[2].nodes[k].id, "COMP_")
    /\ \E k \in DOMAIN results[2].edges : StartsWith(results[2].edges[k].id, "edge_")
    /\ test_cases # <<>>

(***************************************************************************)
(* The graph builder run on one chunk whose compliance mentions are        *)
(* spellings of the normalizer's aliases                                   *)
(***************************************************************************)
Casings == {"lower", "upper", "title"}

\* whitespace put before and after an alias
Paddings == { <<"", "">>, <<" ", "">>, <<"", "  ">>, <<"\t ", " \n">> }

\* every alias in every casing and padding, with the alias it spells
DetectedSpellings ==
    { [key |-> k, raw |-> pad[1] \o MapChars(k, 1, Len(k), c) \o pad[2]] :
        k \in NormalizationKeys, c \in Casings, pad \in Paddings }

TargetSpellings ==
    { [key |-> "gdpr", raw |-> "GDPR"],
      [key |-> "gdpr:2016/679", raw |-> "gdpr:2016/679"],
      [key |-> "general data protection regulation", raw |-> "General Data Protection Regulation"],
      [key |-> "soc 2", raw |-> " Soc 2"] }

InitNorm ==
    /\ mentions \in { <<d, t>> : d \in DetectedSpellings, t \in TargetSpellings }
    /\ chunks = << Chunk(<<Req("REQ-001", ReqTextPlain)>>,
                         <<CompEntity(mentions[1].raw, Missing, Missing, Missing)>>,
                         <<Rel("REQ-001", mentions[2].raw, "COMPLIANCE_STANDARD", "GOVERNED_BY", Missing)>>) >>
    /\ test_cases = <<>>
    /\ pc = "idle" /\ chunk_i = 0
    /\ nodes = <<>> /\ edges = <<>> /\ seen_requirements = {}
    /\ seen_compliance = EmptyDict /\ seen_test_cases = {} /\ results = <<>>
    /\ IdleDet /\ IdleBox /\ IdleExp /\ IdleFtb /\ IdleChain /\ IdleTrace /\ IdleRuns /\ IdlePipe

NextNorm ==
    \/ CallStart
    \/ StepRequirements
    \/ StepDetectedCompliance
    \/ StepRelationshipTargets
    \/ StepRelationshipEdges
    \/ StepTestCases
    \/ Return

SpecNorm == InitNorm /\ [][NextNorm]_vars

\* C5: the normalizer maps every alias of its table, in any letter case and with any
\* leading or trailing whitespace, to the alias's canonical id ("GDPR",
\* "gdpr:2016/679" and "General Data Protection Regulation" give GDPR:2016/679), and
\* within one run mentions spelling aliases of one canonical id resolve to one node
C5_AliasesNormalize ==
    /\ \A k \in DOMAIN mentions :
          normalize_compliance_id(mentions[k].raw) = compliance_normalization(mentions[k].key)
    /\ \A raw \in {"GDPR", "gdpr:2016/679", "General Data Protection Regulation"} :
          normalize_compliance_id(raw) = "GDPR:2016/679"
    /\ (mentions # <<>> /\ pc = "metadata") =>
          LET canon1 == compliance_normalization(mentions[1].key)
              canon2 == compliance_normalization(mentions[2].key)
          IN  /\ \A c \in {canon1, canon2} :
                    Cardinality({i \in ComplianceIdx : nodes[i].title = c}) = 1
              /\ Cardinality(ComplianceIdx) = Cardinality({canon1, canon2})
              /\ \A i \in ComplianceIdx : nodes[i].title = canon2 => edges[1].to = nodes[i].id

\* C5 witness: "\t GDPR \n" is detected, "General Data Protection Regulation" is a
\* relationship target, and the built graph has one compliance node
C5_Witness ==
    /\ mentions # <<>> /\ pc = "metadata"
    /\ mentions[1].raw = "\t GDPR \n"
    /\ mentions[2].raw = "General Data Protection Regulation"
    /\ Cardinality(ComplianceIdx) = 1
    /\ edges[1].to = "COMP_001"

(***************************************************************************)
(* document_ai.py: merge_bounding_boxes                                    *)
(***************************************************************************)
MaxBoxes == 2       \* boxes per call

BoxKeys == {"x_min", "y_min", "x_max", "y_max"}

\* b and all(k in b for k in [...]): a non-empty dict that has the four keys
IsValidBox(b) == DOMAIN b # {} /\ BoxKeys \subseteq DOMAIN b

RECURSIVE FoldMin(_, _, _, _)
\* min(b[key] for b in boxes), as min() runs over the generator from box k on
FoldMin(boxes, key, k, best) ==
    IF k > Len(boxes) THEN best
    ELSE FoldMin(boxes, key, k + 1, IF boxes[k][key] < best THEN boxes[k][key] ELSE best)

RECURSIVE FoldMax(_, _, _, _)
\* max(b[key] for b in boxes), from box k on
FoldMax(boxes, key, k, best) ==
    IF k > Len(boxes) THEN best
    ELSE FoldMax(boxes, key, k + 1, IF boxes[k][key] > best THEN boxes[k][key] ELSE best)

\* a plausible slip: y_max is taken with min instead of max
MergeYMaxByMin(boxes) ==
    LET valid_bboxes == SelectSeq(boxes, IsValidBox)
    IN  IF boxes = <<>> \/ valid_bboxes = <<>> THEN EmptyDict
        ELSE [ x_min |-> FoldMin(valid_bboxes, "x_min", 2, valid_bboxes[1].x_min),
               y_min |-> FoldMin(valid_bboxes, "y_min", 2, valid_bboxes[1].y_min),
               x_max |-> FoldMax(valid_bboxes, "x_max", 2, valid_bboxes[1].x_max),
               y_max |-> FoldMin(valid_bboxes, "y_max", 2, valid_bboxes[1].y_max) ]

merge_bounding_boxes(boxes) ==
    LET valid_bboxes == SelectSeq(boxes, IsValidBox)
    IN  IF boxes = <<>> \/ valid_bboxes = <<>> THEN EmptyDict
        ELSE [ x_min |-> FoldMin(valid_bboxes, "x_min", 2, valid_bboxes[1].x_min),
               y_min |-> FoldMin(valid_bboxes, "y_min", 2, valid_bboxes[1].y_min),
               x_max |-> FoldMax(valid_bboxes, "x_max", 2, valid_bboxes[1].x_max),
               y_max |-> FoldMax(valid_bboxes, "y_max", 2, valid_bboxes[1].y_max) ]

Box(x_min, y_min, x_max, y_max) ==
    [x_min |-> x_min, y_min |-> y_min, x_max |-> x_max, y_max |-> y_max]

\* coordinates in tenths of the page: the boxes of the documented example,
\* {0.1,0.2,0.5,0.3} and {0.1,0.3,0.5,0.4}, and boxes that overlap, nest or are apart
BoxSet ==
    { Box(x1, y1, x2, y2) : x1 \in {1, 3}, y1 \in {2, 3}, x2 \in {2, 5}, y2 \in {3, 4} }
    \cup { EmptyDict, [x_min |-> 1, y_min |-> 2, x_max |-> 5] }

InitBox ==
    /\ bboxes \in BoundedSeqs(BoxSet, MaxBoxes)
    /\ merged = <<>>
    /\ IdleKG /\ IdleNorm /\ IdleDet /\ IdleExp /\ IdleFtb /\ IdleChain /\ IdleTrace /\ IdleRuns /\ IdlePipe

\* the caller passes its boxes in some order
MergeCall ==
    /\ merged = <<>>
    /\ \E order \in {f \in [DOMAIN bboxes -> DOMAIN bboxes] :
                       \A i, j \in DOMAIN bboxes : f[i] = f[j] => i = j} :
          LET arg == [k \in DOMAIN bboxes |-> bboxes[order[k]]]
          IN  merged' = <<[arg |-> arg, ret |-> merge_bounding_boxes(arg)]>>
    /\ UNCHANGED <<bboxes, kgVars, normVars, detVars, expVars, ftbVars, chainVars, traceVars, runsVars, pipeVars>>

NextBox == MergeCall

SpecBox == InitBox /\ [][NextBox]_vars

ValidBoxes == {bboxes[k] : k \in {h \in DOMAIN bboxes : IsValidBox(bboxes[h])}}

ExampleBoxes == <<Box(1, 2, 5, 3), Box(1, 3, 5, 4)>>

\* C10: merge_bounding_boxes returns the minimal enclosing rectangle of its valid
\* input boxes (every input box lies inside it and each side is touched by an input
\* box), whatever the order of the list; merging {0.1,0.2,0.5,0.3} and
\* {0.1,0.3,0.5,0.4} gives {0.1,0.2,0.5,0.4}
C10_MinimalEnclosingRectangle ==
    \A m \in DOMAIN merged :
        LET ret == merged[m].ret
        IN  /\ ValidBoxes = {} => ret = EmptyDict
            /\ ValidBoxes # {} =>
                 /\ DOMAIN ret = BoxKeys
                 /\ \A b \in ValidBoxes :
                       /\ ret.x_min <= b.x_min /\ ret.y_min <= b.y_min
                       /\ b.x_max <= ret.x_max /\ b.y_max <= ret.y_max
                 /\ \E b \in ValidBoxes : b.x_min = ret.x_min
                 /\ \E b \in ValidBoxes : b.y_min = ret.y_min
                 /\ \E b \in ValidBoxes : b.x_max = ret.x_max
                 /\ \E b \in ValidBoxes : b.y_max = ret.y_max
            /\ ret = merge_bounding_boxes(bboxes)
            /\ bboxes = ExampleBoxes => ret = Box(1, 2, 5, 4)

\* C10 witness: the example boxes were passed in reverse order
C10_Witness ==
    /\ bboxes = ExampleBoxes
    /\ merged # <<>>
    /\ merged[1].arg = <<Box(1, 3, 5, 4), Box(1, 2, 5, 3)>>
    /\ merged[1].ret = Box(1, 2, 5, 4)

(***************************************************************************)
(* document_ai.py: context expansion                                       *)
(***************************************************************************)
\* the positions at which a separator [.!?]+\s+ of smart_split_sentences starts:
\* a maximal run of sentence punctuation that whitespace follows
SmartSepStarts(s) ==
    {i \in 1..Len(s) : /\ IsPunct(s, i) /\ ~IsPunct(s, i - 1)
                       /\ IsSpace(s, i + RunLen(s, i, ".!?"))}

\* the "text" fields of smart_split_sentences(text): each sentence up to and with
\* its punctuation, stripped, and the rest after the last separator if not blank
smart_split_sentences(text) ==
    LET st   == SortedSeqOf(SmartSepStarts(text))
        n    == Len(st)
        PunctEnd(k) == st[k] + RunLen(text, st[k], ".!?") - 1
        From(k) == IF k = 1 THEN 1 ELSE LStripFrom(text, PunctEnd(k - 1) + 1)
        last == Strip(SubSeq(text, From(n + 1), Len(text)))
    IN  [k \in 1..n |-> Strip(SubSeq(text, From(k), PunctEnd(k)))]
        \o (IF last # "" THEN <<last>> ELSE <<>>)

\* characters allowed between the capital and the colon of a heading
HeadingClass == UpperLetters \o LowerLetters \o Whitespace \o "&-"

MinHeadingBreakLen == 2     \* {2,} of the section-break heading pattern

\* one of section_break_patterns matches next_sent (the non-ASCII bullet glyphs of
\* the second pattern are outside the model's alphabet)
IsSectionBreak(next_sent) ==
    \/ LET n == RunLen(next_sent, 1, Digits) IN n >= 1 /\ Ch(next_sent, n + 1) = "."
    \/ InClass(Ch(next_sent, 1), "-*")
    \/ /\ InClass(Ch(next_sent, 1), UpperLetters)
       /\ LET n == RunLen(next_sent, 2, HeadingClass)
          IN  n >= MinHeadingBreakLen /\ Ch(next_sent, n + 2) = ":"
    \/ /\ Ch(next_sent, 1) = "("
       /\ LET n == RunLen(next_sent, 2, LowerLetters \o Digits)
          IN  n >= 1 /\ Ch(next_sent, n + 2) = ")"
    \/ LET n == RunLen(next_sent, 1, "IVX") IN n >= 1 /\ Ch(next_sent, n + 1) = "."

Conjunctions == {"and", "or", "but", "yet", "so"}
Pronouns     == {"it", "this", "these", "they", "that", "which", "who"}
Adverbs      == {"additionally", "furthermore", "also", "moreover", "however", "therefore"}

\* a plausible slip: the continuation patterns matched without re.IGNORECASE
ContinuationSignalCaseSensitive(next_sent) ==
    \/ \E w \in Conjunctions \cup Pronouns \cup Adverbs :
          StartsWith(next_sent, w) /\ IsSpace(next_sent, Len(w) + 1)
    \/ InClass(Ch(next_sent, 1), LowerLetters)

\* one of continuation_patterns matches next_sent; they are matched with
\* re.IGNORECASE, so the last one, ^[a-z], matches any leading letter
HasContinuationSignal(next_sent) ==
    LET low == Lower(next_sent)
    IN  \/ \E w \in Conjunctions \cup Pronouns : StartsWith(low, w) /\ IsSpace(low, Len(w) + 1)
        \/ \E w \in Adverbs :
              /\ StartsWith(low, w)
              /\ LET a == LStripFrom(low, Len(w) + 1)
                 IN  \/ a > Len(w) + 1
                     \/ InClass(Ch(low, a), ",:") /\ IsSpace(low, a + 1)
        \/ InClass(Ch(low, 1), LowerLetters)

\* a plausible slip: the section-break patterns are not consulted
ContinuationIgnoringBreaks(current, next_sent) ==
    LET stripped == Strip(next_sent)
    IN  stripped # "" /\ HasContinuationSignal(stripped)

is_continuation_sentence(current, next_sent) ==
    LET stripped == Strip(next_sent)
    IN  /\ stripped # ""
        /\ ~IsSectionBreak(stripped)
        /\ HasContinuationSignal(stripped)

MinThoughtChars == 20
MinThoughtWords == 3

is_complete_thought(text) ==
    LET text_stripped == Strip(text)
    IN  /\ Len(text_stripped) >= MinThoughtChars
        /\ IsPunct(text_stripped, Len(text_stripped))
        /\ Len(Words(text_stripped)) >= MinThoughtWords

CompleteLen   == 50     \* an initial sentence longer than this may be returned as is
FuzzyShort    == 50     \* [:50] of the fuzzy match
FuzzyLong     == 60     \* [:60] of the fuzzy match
GoodStopLen   == 80     \* a complete combined text longer than this stops expansion

RECURSIVE ExpandFrom(_, _, _, _, _, _, _)
\* the look-ahead loop from iteration i on: the list expanded_sentences
ExpandFrom(sentences, initial_idx, i, expanded, current_length, max_sentences, max_chars) ==
    IF i >= max_sentences \/ initial_idx + i > Len(sentences) THEN expanded
    ELSE LET next_sent == sentences[initial_idx + i]
             current_sent == expanded[Len(expanded)]
             added == Append(expanded, next_sent)
             combined == Join(added, " ")
         IN  IF ~is_continuation_sentence(current_sent, next_sent) THEN expanded
             ELSE IF current_length + Len(next_sent) + 1 > max_chars THEN expanded
             ELSE IF is_complete_thought(combined) /\ Len(combined) > GoodStopLen THEN added
             ELSE ExpandFrom(sentences, initial_idx, i + 1, added,
                             current_length + Len(next_sent) + 1, max_sentences, max_chars)

\* the fuzzy match of the stripped initial sentence against the sentences of the
\* context: the first index that matches, 0 (None) if there is none
LocateInitial(initial, sentences) ==
    LET initial_normalized == NormalizeSpaces(Lower(initial))
        Located(idx) ==
            LET sent_normalized == NormalizeSpaces(Lower(sentences[idx]))
            IN  \/ Contains(Prefix(sent_normalized, FuzzyLong), Prefix(initial_normalized, FuzzyShort))
                \/ Contains(Prefix(initial_normalized, FuzzyLong), Prefix(sent_normalized, FuzzyShort))
    IN  MinOr({idx \in DOMAIN sentences : Located(idx)}, 0)

expand_requirement_context(initial_sentence, full_line_text, max_sentences, max_chars) ==
    IF initial_sentence = "" \/ full_line_text = "" THEN initial_sentence
    ELSE LET initial   == Strip(initial_sentence)
             sentences == smart_split_sentences(Strip(full_line_text))
             initial_idx == LocateInitial(initial, sentences)
         IN  IF is_complete_thought(initial) /\ Len(initial) > CompleteLen THEN initial
             ELSE IF sentences = <<>> \/ initial_idx = 0 THEN initial
             ELSE NormalizeSpaces(Join(
                      ExpandFrom(sentences, initial_idx, 1, <<sentences[initial_idx]>>,
                                 Len(sentences[initial_idx]), max_sentences, max_chars), " "))

(***************************************************************************)
(* document_ai.py: detect_requirements                                     *)
(***************************************************************************)
ENABLE_CONTEXT_EXPANSION == TRUE
MAX_EXPANSION_SENTENCES  == 3
MAX_EXPANSION_CHARS      == 300

modal_verbs ==
    {"shall", "must", "should", "will", "may", "needs to", "required to", "has to",
     "ought to", "supposed to"}

action_verbs ==
    {"provide", "support", "enable", "allow", "implement", "ensure", "guarantee",
     "deliver", "offer", "include", "facilitate", "perform", "execute", "process",
     "handle"}

context_keywords ==
    {"system", "user", "feature", "application", "data", "service", "platform"}

\* re.search(modal_pattern, sentence, re.IGNORECASE)
HasModal(sentence) == LET low == Lower(sentence) IN \E w \in modal_verbs : HasWord(low, w)

\* re.search(action_pattern, sentence, re.IGNORECASE)
HasAction(sentence) ==
    LET low == Lower(sentence)
    IN  \E w \in action_verbs : \E suffix \in {"", "s", "ing"} : HasWord(low, w \o suffix)

\* any(keyword in sentence.lower() for keyword in [...])
HasContextKeyword(sentence) ==
    LET low == Lower(sentence) IN \E w \in context_keywords : Contains(low, w)

MinHeadingLen == 3      \* {3,40} of section_pattern
MaxHeadingLen == 40

\* re.match(section_pattern, line): a capital, 3 to 40 heading characters, a colon
\* that no newline follows
IsSectionHeader(line) ==
    /\ InClass(Ch(line, 1), UpperLetters)
    /\ LET n == RunLen(line, 2, HeadingClass)
       IN  /\ MinHeadingLen <= n /\ n <= MaxHeadingLen
           /\ Ch(line, n + 2) = ":"
           /\ Ch(line, n + 3) # "\n"

\* line.split(':')[0].strip()
HeaderName(line) ==
    Strip(SubSeq(line, 1, MinOr({i \in 1..Len(line) : Ch(line, i) = ":"}, Len(line) + 1) - 1))

\* the two bullet patterns (the non-ASCII bullet glyphs of the first one are
\* outside the model's alphabet)
IsBullet(sentence) ==
    LET a == LStripFrom(sentence, 1)
        n == RunLen(sentence, a, Digits \o LowerLetters)
    IN  \/ InClass(Ch(sentence, a), "-*") /\ IsSpace(sentence, a + 1)
        \/ n >= 1 /\ InClass(Ch(sentence, a + n), ".)") /\ IsSpace(sentence, a + n + 1)

\* re.split(r'[.!?]\s+', line)
SplitSentences(line) ==
    LET st == SortedSeqOf({i \in 1..Len(line) : IsPunct(line, i) /\ IsSpace(line, i + 1)})
        n  == Len(st)
    IN  [k \in 1..(n + 1) |->
            SubSeq(line, IF k = 1 THEN 1 ELSE LStripFrom(line, st[k - 1] + 1),
                         IF k = n + 1 THEN Len(line) ELSE st[k] - 1)]

\* f"REQ-{req_id_counter:03d}"
ReqId(req_id_counter) == "REQ-" \o Pad3(req_id_counter)

MinLineLen     == 10
MinHeaderLen   == 5     \* len(req_text) > 5
HeaderTextLen  == 200   \* line[:200]
MinSentenceLen == 15
MinBulletLen   == 15    \* len(sentence) > 15

HeaderConfidence == 75  \* hundredths
ModalConfidence  == 85
ActionConfidence == 70
BulletConfidence == 70

\* the locals of detect_requirements before the first line
DetectStart == [requirements |-> <<>>, seen_texts |-> {}, req_id_counter |-> 1]

\* req_obj is appended, seen is added to seen_texts, the counter moves on
Emit(st, text, type, confidence, seen) ==
    [requirements   |-> Append(st.requirements,
                               [id |-> ReqId(st.req_id_counter), text |-> text,
                                type |-> type, confidence |-> confidence]),
     seen_texts     |-> st.seen_texts \cup {seen},
     req_id_counter |-> st.req_id_counter + 1]

\* the section-header branch with the counter left where it was
EmitHeaderSameCounter(st, line) ==
    [Emit(st, Prefix(line, HeaderTextLen), "SECTION_HEADER", HeaderConfidence, HeaderName(line))
        EXCEPT !.req_id_counter = st.req_id_counter]

\* the body of the section-header branch
EmitHeader(st, line) ==
    Emit(st, Prefix(line, HeaderTextLen), "SECTION_HEADER", HeaderConfidence, HeaderName(line))

Expanded(sentence, text) ==
    IF ENABLE_CONTEXT_EXPANSION
    THEN expand_requirement_context(sentence, text, MAX_EXPANSION_SENTENCES, MAX_EXPANSION_CHARS)
    ELSE sentence

\* one pass of the loop over sentences
DetectSentence(st, raw, text) ==
    LET sentence == Strip(raw)
        expanded_text == Expanded(sentence, text)
    IN  IF sentence = "" \/ Len(sentence) < MinSentenceLen THEN st
        ELSE IF sentence \in st.seen_texts THEN st
        ELSE IF HasModal(sentence)
             THEN Emit(st, expanded_text, "MODAL_VERB", ModalConfidence, expanded_text)
        ELSE IF HasAction(sentence)
             THEN IF HasContextKeyword(sentence)
                  THEN Emit(st, expanded_text, "ACTION_VERB", ActionConfidence, expanded_text)
                  ELSE st
        ELSE IF IsBullet(sentence)
             THEN IF Len(sentence) > MinBulletLen
                  THEN Emit(st, expanded_text, "BULLET_POINT", BulletConfidence, expanded_text)
                  ELSE st
        ELSE st

RECURSIVE DetectSentences(_, _, _, _)
DetectSentences(st, sentences, k, text) ==
    IF k > Len(sentences) THEN st
    ELSE DetectSentences(DetectSentence(st, sentences[k], text), sentences, k + 1, text)

\* one pass of the loop over lines
DetectLine(st, raw, text) ==
    LET line == Strip(raw)
        st1  == IF /\ IsSectionHeader(line)
                   /\ HeaderName(line) \notin st.seen_texts
                   /\ Len(HeaderName(line)) > MinHeaderLen
                THEN EmitHeader(st, line)
                ELSE st
    IN  IF line = "" \/ Len(line) < MinLineLen THEN st
        ELSE DetectSentences(st1, SplitSentences(line), 1, text)

RECURSIVE DetectLines(_, _, _, _)
DetectLines(st, lines, k, text) ==
    IF k > Len(lines) THEN st
    ELSE DetectLines(DetectLine(st, lines[k], text), lines, k + 1, text)

\* detect_requirements(text) without layout elements: the list it returns
detect_requirements(text) ==
    DetectLines(DetectStart, SplitLines(text), 1, text).requirements

(***************************************************************************)
(* parse_document_ai_response: requirement detection page by page          *)
(***************************************************************************)
MaxPages == 2

LineHeaderModal == "Security: The system must encrypt data"
LineThree       == "The system shall authenticate users. It must use multi-factor authentication. This ensures security."
LineAction      == "The platform supports offline data sync"
LineActionOnly  == "The team performs weekly reviews"
LineBullet      == "a) Offline mode for mobile devices"
LineShort       == "Too short"
LineProse       == "This document describes the background of the project"
LineTwo         == "The system must encrypt data. It uses AES."
LineHeading     == "Data Retention: ninety days"
LineBulletVerb  == "a) Include offline maps for hikers"

\* the text of a page
PageTexts ==
    {LineHeaderModal, LineThree, LineAction, LineBullet, LineProse, LineTwo, LineBulletVerb,
     LineShort \o "\n" \o LineActionOnly,
     LineTwo \o "\n" \o LineTwo,
     LineHeading \o "\n" \o LineHeading \o "\n" \o LineBullet,
     LineHeaderModal \o "\n" \o LineAction \o "\n" \o LineBullet}

InitDet ==
    /\ pages \in BoundedSeqs(PageTexts, MaxPages)
    /\ page_i = 0
    /\ doc_requirements = <<>>
    /\ IdleKG /\ IdleNorm /\ IdleBox /\ IdleExp /\ IdleFtb /\ IdleChain /\ IdleTrace /\ IdleRuns /\ IdlePipe

\* one pass of the loop over document.pages: detect_requirements on the page text
DetectPage ==
    /\ page_i < Len(pages)
    /\ page_i' = page_i + 1
    /\ doc_requirements' = Append(doc_requirements, detect_requirements(pages[page_i + 1]))
    /\ UNCHANGED <<pages, kgVars, normVars, boxVars, expVars, ftbVars, chainVars, traceVars, runsVars, pipeVars>>

NextDet == DetectPage

SpecDet == InitDet /\ [][NextDet]_vars

\* the requirements of all processed pages, in document order
RECURSIVE Flatten(_, _)
Flatten(lists, k) == IF k > Len(lists) THEN <<>> ELSE lists[k] \o Flatten(lists, k + 1)

RECURSIVE ParseInt(_)
\* int(s) for a string of decimal digits
ParseInt(s) ==
    IF s = "" THEN 0
    ELSE 10 * ParseInt(SubSeq(s, 1, Len(s) - 1)) + (IndexIn(Ch(s, Len(s)), Digits) - 1)

\* the number of an id REQ-NNN
IdNumber(id) == ParseInt(SubSeq(id, Len("REQ-") + 1, Len(id)))

\* C7: across the pages of one document the id counter is never reset: no two
\* detected requirements share an id, and every id of a later page is greater than
\* every id of an earlier page.
C7_IdsUniqueAcrossPages ==
    LET all == Flatten(doc_requirements, 1)
    IN  /\ \A i, j \in DOMAIN all : all[i].id = all[j].id => i = j
        /\ \A p, q \in DOMAIN doc_requirements :
               p < q => \A i \in DOMAIN doc_requirements[p], j \in DOMAIN doc_requirements[q] :
                           IdNumber(doc_requirements[p][i].id) < IdNumber(doc_requirements[q][j].id)

\* C8: within the list one detect_requirements call returns, ids are pairwise
\* distinct and strictly increasing in list order.
C8_IdsIncreaseWithinCall ==
    \A p \in DOMAIN doc_requirements :
        LET reqs == doc_requirements[p]
        IN  \A i, j \in DOMAIN reqs :
                i < j => /\ reqs[i].id # reqs[j].id
                         /\ IdNumber(reqs[i].id) < IdNumber(reqs[j].id)

\* a call has returned requirements of all four triggers, a section header first
C8_Witness ==
    \E p \in DOMAIN doc_requirements :
        /\ doc_requirements[p] # <<>>
        /\ doc_requirements[p][1].type = "SECTION_HEADER"
        /\ \A t \in {"MODAL_VERB", "ACTION_VERB", "BULLET_POINT"} :
               \E k \in DOMAIN doc_requirements[p] : doc_requirements[p][k].type = t

\* C9: no two requirements returned by one detect_requirements call share a text.
C9_NoDuplicateTexts ==
    \A p \in DOMAIN doc_requirements :
        LET reqs == doc_requirements[p]
        IN  \A i, j \in DOMAIN reqs : reqs[i].text = reqs[j].text => i = j

(***************************************************************************)
(* expand_requirement_context called on its own                            *)
(***************************************************************************)
MaxApplications == 2    \* times the function is applied to its own output

CtxAuth     == "The system shall authenticate users. It must use multi-factor authentication. This ensures security."
CtxSections == "Security: The application must encrypt data. Performance: Fast loading times required."
CtxData     == "Data. The system must log data. It works"
CtxTwice    == "The system must encrypt data. It uses AES.\nThe system must encrypt data. It uses AES."
CtxNumbered == "The system must support login. 1. Offline mode is needed. and more follows"
CtxBullets  == "Users must register first. - a dash item follows here. It continues."
CtxMarkers  == "The app must sync. (a) first option given. IV. Fourth part."
CtxFragment == "encrypt data"

ExpContexts ==
    {CtxAuth, CtxSections, CtxData, CtxTwice, CtxNumbered, CtxBullets, CtxMarkers, CtxFragment}

InitAuth     == "The system shall authenticate users"
InitSecurity == "Security: The application must encrypt data"

ExpInitials ==
    {InitAuth, InitSecurity,
     "It must use multi-factor authentication",
     "The application must encrypt data",
     "The system must log data",
     "The system must encrypt data",
     "The system must support login",
     "Users must register first",
     "The app must sync",
     "Nothing in the context matches this",
     "The system shall authenticate all users of the platform daily."}

ExpMaxSentences == {1, 2, MAX_EXPANSION_SENTENCES}
ExpMaxChars     == {30, 80, MAX_EXPANSION_CHARS}

InitExp ==
    /\ exp_args \in [initial_sentence : ExpInitials, full_line_text : ExpContexts,
                     max_sentences : ExpMaxSentences, max_chars : ExpMaxChars]
    /\ exp_outs = <<>>
    /\ IdleKG /\ IdleNorm /\ IdleDet /\ IdleBox /\ IdleFtb /\ IdleChain /\ IdleTrace /\ IdleRuns /\ IdlePipe

\* one call: on the initial sentence first, then on the text the last call returned
ExpandCall ==
    /\ Len(exp_outs) < MaxApplications
    /\ LET arg == IF exp_outs = <<>> THEN exp_args.initial_sentence ELSE exp_outs[Len(exp_outs)]
       IN  exp_outs' = Append(exp_outs,
                              expand_requirement_context(arg, exp_args.full_line_text,
                                                         exp_args.max_sentences, exp_args.max_chars))
    /\ UNCHANGED <<exp_args, kgVars, normVars, detVars, boxVars, ftbVars, chainVars, traceVars, runsVars, pipeVars>>

NextExp == ExpandCall

SpecExp == InitExp /\ [][NextExp]_vars

\* the sentences of the context of the call, and where the initial sentence is located
ExpSentences == smart_split_sentences(Strip(exp_args.full_line_text))

ExpIdx == LocateInitial(Strip(exp_args.initial_sentence), ExpSentences)

\* index of the first sentence after the located one that is a section break
\* (one past the last sentence if there is none)
ExpBreak ==
    MinOr({b \in (ExpIdx + 1)..Len(ExpSentences) : IsSectionBreak(Strip(ExpSentences[b]))},
          Len(ExpSentences) + 1)

\* C11: expansion never crosses a detected section break: the output is the initial
\* sentence or the located sentence with sentences that all precede the first section
\* break after it, and no sentence from that break on is part of the output; the
\* Security / Performance example gives a text without "Performance"
C11_NeverCrossesSectionBreak ==
    (exp_outs # <<>> /\ ExpIdx > 0) =>
        /\ \/ exp_outs[1] = Strip(exp_args.initial_sentence)
           \/ \E j \in ExpIdx..(ExpBreak - 1) :
                 exp_outs[1] = NormalizeSpaces(JoinRange(ExpSentences, ExpIdx, j, " "))
        /\ \A b \in ExpBreak..Len(ExpSentences) : ~Contains(exp_outs[1], ExpSentences[b])
        /\ (exp_args.initial_sentence = InitSecurity /\ exp_args.full_line_text = CtxSections)
              => ~Contains(exp_outs[1], "Performance")

\* the example has been expanded with room in both budgets for the next sentence
C11_Witness ==
    /\ exp_outs # <<>>
    /\ exp_args.initial_sentence = InitSecurity /\ exp_args.full_line_text = CtxSections
    /\ exp_args.max_sentences = MAX_EXPANSION_SENTENCES /\ exp_args.max_chars = MAX_EXPANSION_CHARS
    /\ ExpBreak = ExpIdx + 1 /\ ExpBreak <= Len(ExpSentences)

\* C12: the returned text has at most max_sentences sentences and at most max_chars
\* characters, on every return path
C12_RespectsBothCaps ==
    exp_outs # <<>> =>
        /\ Len(exp_outs[1]) <= exp_args.max_chars
        /\ Len(smart_split_sentences(exp_outs[1])) <= exp_args.max_sentences

\* C13: expansion is idempotent against the same context and caps: applying it to its
\* own output returns that output
C13_Idempotent ==
    Len(exp_outs) >= 2 => exp_outs[2] = exp_outs[1]

\* C14: the returned text is at least as long as the initial sentence
C14_OutputAtLeastInput ==
    exp_outs # <<>> => Len(exp_outs[1]) >= Len(exp_args.initial_sentence)

\* the sentence begins with a conjunction, a pronoun or a linking adverb, in any
\* letter case, followed by whitespace
BeginsWithSignalWord(sentence) ==
    \E w \in Conjunctions \cup Pronouns \cup Adverbs :
        StartsWith(Lower(sentence), w) /\ IsSpace(sentence, Len(w) + 1)

\* the call is one in which the sentence after the located one must be taken
ExpMustContinue ==
    /\ ExpIdx > 0 /\ ExpIdx < Len(ExpSentences)
    /\ ~(is_complete_thought(Strip(exp_args.initial_sentence))
         /\ Len(Strip(exp_args.initial_sentence)) > CompleteLen)
    /\ BeginsWithSignalWord(ExpSentences[ExpIdx + 1])
    /\ ~IsSectionBreak(ExpSentences[ExpIdx + 1])
    /\ exp_args.max_sentences >= 2
    /\ Len(ExpSentences[ExpIdx]) + Len(ExpSentences[ExpIdx + 1]) + 1 <= exp_args.max_chars

\* C15: when the initial sentence is located, is not already a complete thought longer
\* than 50 characters, and the next sentence begins with a continuation signal, is no
\* section break and fits both budgets, the output starts with the located sentence
\* followed by that next sentence; the authentication example contains "multi-factor"
C15_ContinuationIncluded ==
    exp_outs # <<>> =>
        /\ ExpMustContinue =>
              /\ StartsWith(exp_outs[1],
                            NormalizeSpaces(JoinRange(ExpSentences, ExpIdx, ExpIdx + 1, " ")))
              /\ Contains(exp_outs[1], NormalizeSpaces(ExpSentences[ExpIdx + 1]))
        /\ (/\ exp_args.initial_sentence = InitAuth /\ exp_args.full_line_text = CtxAuth
            /\ exp_args.max_sentences = MAX_EXPANSION_SENTENCES
            /\ exp_args.max_chars = MAX_EXPANSION_CHARS)
              => Contains(exp_outs[1], "multi-factor")

\* the authentication example has been expanded under the default budgets
C15_Witness ==
    /\ exp_outs # <<>> /\ ExpMustContinue
    /\ exp_args.initial_sentence = InitAuth /\ exp_args.full_line_text = CtxAuth
    /\ exp_args.max_sentences = MAX_EXPANSION_SENTENCES
    /\ exp_args.max_chars = MAX_EXPANSION_CHARS
    /\ Len(exp_outs[1]) > Len(InitAuth)

(***************************************************************************)
(* document_ai.py: find_text_bounding_box                                  *)
(***************************************************************************)
\* A layout element is [class_name, segments, vertices]: the name of its class, the
\* text segments [start_index, end_index] of layout.text_anchor, and the normalized
\* vertices [x, y] of layout.bounding_poly (<<>> when there is no polygon).
None == [none |-> TRUE]

\* is_paragraph_element / is_line_element
is_paragraph_element(element) == Contains(Lower(element.class_name), "paragraph")

is_line_element(element) ==
    /\ Contains(Lower(element.class_name), "line")
    /\ ~Contains(Lower(element.class_name), "paragraph")

\* full_document_text[start:end]
Slice(text, start, end) ==
    IF start >= end \/ start >= Len(text) THEN ""
    ELSE SubSeq(text, start + 1, IF end < Len(text) THEN end ELSE Len(text))

RECURSIVE ConcatSegments(_, _, _)
ConcatSegments(segments, k, full_document_text) ==
    IF k > Len(segments) THEN ""
    ELSE Slice(full_document_text, segments[k].start_index, segments[k].end_index)
         \o ConcatSegments(segments, k + 1, full_document_text)

extract_element_text(element, full_document_text) ==
    ConcatSegments(element.segments, 1, full_document_text)

MinVertices == 2

\* get_bounding_poly(element.layout): the envelope of the vertices, None without two
get_bounding_poly(element) ==
    LET vertices == element.vertices
        xs == {vertices[k].x : k \in DOMAIN vertices}
        ys == {vertices[k].y : k \in DOMAIN vertices}
    IN  IF Len(vertices) < MinVertices THEN None
        ELSE [x_min |-> MinOr(xs, 0), y_min |-> MinOr(ys, 0),
              x_max |-> MaxOr(xs, 0), y_max |-> MaxOr(ys, 0)]

\* set(' '.join(text.lower().split()).split())
WordSet(text) == LET w == Words(Lower(text)) IN {w[k] : k \in DOMAIN w}

ParagraphOverlapPct == 70
LineOverlapPct      == 20

\* len(common_words) / len(words) >= pct / 100
OverlapAtLeast(words, others, pct) ==
    words # {} /\ 100 * Cardinality(words \cap others) >= pct * Cardinality(words)

RECURSIVE FirstBox(_, _)
\* the bounding box of the first of the elements, from the k-th on, that has one
FirstBox(elements, k) ==
    IF k > Len(elements) THEN None
    ELSE IF get_bounding_poly(elements[k]) # None THEN get_bounding_poly(elements[k])
    ELSE FirstBox(elements, k + 1)

\* tier 1: the paragraph holds text with at least 70% of the target's words
ParagraphAccepts(para, target_text, full_document_text) ==
    LET para_text == extract_element_text(para, full_document_text)
    IN  /\ para_text # ""
        /\ NormalizeSpaces(Lower(target_text)) # "" /\ NormalizeSpaces(Lower(para_text)) # ""
        /\ OverlapAtLeast(WordSet(target_text), WordSet(para_text), ParagraphOverlapPct)

\* a plausible slip: a line is taken as soon as it shares a word with the target
LineSharesAWord(line, target_text, full_document_text) ==
    LET line_text == extract_element_text(line, full_document_text)
    IN  /\ line_text # ""
        /\ WordSet(target_text) \cap WordSet(line_text) # {}

\* tier 2: the line holds text with at least 20% of the target's words
LineAccepts(line, target_text, full_document_text) ==
    LET line_text == extract_element_text(line, full_document_text)
    IN  /\ line_text # ""
        /\ OverlapAtLeast(WordSet(target_text), WordSet(line_text), LineOverlapPct)

\* tier 3: the normalized texts contain one another
FuzzyAccepts(element, target_text, full_document_text) ==
    LET element_text == extract_element_text(element, full_document_text)
        target_normalized  == NormalizeSpaces(Lower(target_text))
        element_normalized == NormalizeSpaces(Lower(element_text))
    IN  /\ element_text # ""
        /\ \/ Contains(element_normalized, target_normalized)
           \/ Contains(target_normalized, element_normalized)

IsOtherElement(el) == ~is_paragraph_element(el) /\ ~is_line_element(el)

Tier1(target_text, elements, full_document_text) ==
    LET Accepts(para) == ParagraphAccepts(para, target_text, full_document_text)
    IN  FirstBox(SelectSeq(SelectSeq(elements, is_paragraph_element), Accepts), 1)

Tier2(target_text, elements, full_document_text) ==
    LET lines == SelectSeq(elements, is_line_element)
        IsMatching(line) == LineAccepts(line, target_text, full_document_text)
        HasBox(line) == get_bounding_poly(line) # None
        significant_lines == SelectSeq(SelectSeq(lines, IsMatching), HasBox)
        boxes == [k \in DOMAIN significant_lines |-> get_bounding_poly(significant_lines[k])]
        merged_bbox == merge_bounding_boxes(boxes)
    IN  IF merged_bbox = EmptyDict THEN None ELSE merged_bbox

Tier3(target_text, elements, full_document_text) ==
    LET Accepts(element) == FuzzyAccepts(element, target_text, full_document_text)
        all_elements == SelectSeq(elements, is_paragraph_element)
                            \o SelectSeq(elements, is_line_element)
                            \o SelectSeq(elements, IsOtherElement)
    IN  FirstBox(SelectSeq(all_elements, Accepts), 1)

\* a plausible slip: the line merge is tried before the paragraphs
FindLinesFirst(target_text, page_layout_elements, full_document_text) ==
    IF target_text = "" \/ page_layout_elements = <<>> THEN None
    ELSE IF Tier2(target_text, page_layout_elements, full_document_text) # None
         THEN Tier2(target_text, page_layout_elements, full_document_text)
    ELSE IF Tier1(target_text, page_layout_elements, full_document_text) # None
         THEN Tier1(target_text, page_layout_elements, full_document_text)
    ELSE Tier3(target_text, page_layout_elements, full_document_text)

find_text_bounding_box(target_text, page_layout_elements, full_document_text) ==
    IF target_text = "" \/ page_layout_elements = <<>> THEN None
    ELSE IF Tier1(target_text, page_layout_elements, full_document_text) # None
         THEN Tier1(target_text, page_layout_elements, full_document_text)
    ELSE IF Tier2(target_text, page_layout_elements, full_document_text) # None
         THEN Tier2(target_text, page_layout_elements, full_document_text)
    ELSE Tier3(target_text, page_layout_elements, full_document_text)

(***************************************************************************)
(* find_text_bounding_box called on the layout elements of a page          *)
(***************************************************************************)
MaxElements == 3    \* layout elements per call

FtbDocument == "The system must encrypt user data at rest\nand in transit. Other text here"

FtbTarget == "The system must encrypt user data at rest and in transit."

Segment(start_index, end_index) == [start_index |-> start_index, end_index |-> end_index]

Vertex(x, y) == [x |-> x, y |-> y]

\* the four corners of a rectangle, coordinates in tenths
Corners(x_min, y_min, x_max, y_max) ==
    <<Vertex(x_min, y_min), Vertex(x_max, y_min), Vertex(x_max, y_max), Vertex(x_min, y_max)>>

Element(class_name, segments, vertices) ==
    [class_name |-> class_name, segments |-> segments, vertices |-> vertices]

\* the paragraph of both lines of the requirement (two text segments)
ParaFull       == Element("Paragraph", <<Segment(0, 41), Segment(41, 57)>>, Corners(1, 1, 9, 3))
\* the same paragraph with a single vertex, which is no polygon
ParaFullNoPoly == Element("Paragraph", <<Segment(0, 57)>>, <<Vertex(1, 1)>>)
\* a paragraph of the second line only: 3 of the 11 words
ParaTail       == Element("Paragraph", <<Segment(42, 57)>>, Corners(1, 2, 5, 3))
LineOne        == Element("Line", <<Segment(0, 41)>>, Corners(1, 1, 9, 2))
LineSecond       == Element("Line", <<Segment(42, 57)>>, Corners(2, 2, 5, 3))
\* a line of one word of the requirement: under 20%, but contained in it
LineTransit    == Element("Line", <<Segment(49, 57)>>, Corners(3, 2, 5, 3))
LineOther      == Element("Line", <<Segment(58, 73)>>, Corners(6, 2, 10, 3))
TokenEncrypt   == Element("Token", <<Segment(16, 23)>>, Corners(4, 1, 5, 2))

FtbElements ==
    {ParaFull, ParaFullNoPoly, ParaTail, LineOne, LineSecond, LineTransit, LineOther, TokenEncrypt}

FtbTargets == {FtbTarget, "", "  ", "Other text", "encrypt"}

InitFtb ==
    /\ ftb_args \in [target_text : FtbTargets,
                     page_layout_elements : BoundedSeqs(FtbElements, MaxElements),
                     full_document_text : {FtbDocument}]
    /\ ftb_out = <<>>
    /\ IdleKG /\ IdleNorm /\ IdleDet /\ IdleBox /\ IdleExp /\ IdleChain /\ IdleTrace /\ IdleRuns /\ IdlePipe

FindCall ==
    /\ ftb_out = <<>>
    /\ ftb_out' = <<find_text_bounding_box(ftb_args.target_text, ftb_args.page_layout_elements,
                                           ftb_args.full_document_text)>>
    /\ UNCHANGED <<ftb_args, kgVars, normVars, detVars, boxVars, expVars, chainVars, traceVars, runsVars, pipeVars>>

NextFtb == FindCall

SpecFtb == InitFtb /\ [][NextFtb]_vars

FtbText(el) == extract_element_text(el, ftb_args.full_document_text)

HasPolygon(el) == Len(el.vertices) >= MinVertices

\* the rectangle spanned by the vertices of the elements
Envelope(els) ==
    LET vs == UNION {{el.vertices[k] : k \in DOMAIN el.vertices} : el \in els}
    IN  [x_min |-> MinOr({v.x : v \in vs}, 0), y_min |-> MinOr({v.y : v \in vs}, 0),
         x_max |-> MaxOr({v.x : v \in vs}, 0), y_max |-> MaxOr({v.y : v \in vs}, 0)]

\* at least pct percent of the target's words are words of the element
HoldsShare(el, pct) ==
    LET tw == WordSet(ftb_args.target_text)
    IN  /\ tw # {} /\ FtbText(el) # ""
        /\ 100 * Cardinality(tw \cap WordSet(FtbText(el))) >= pct * Cardinality(tw)

TextsContainOneAnother(el) ==
    LET t == NormalizeSpaces(Lower(ftb_args.target_text))
        e == NormalizeSpaces(Lower(FtbText(el)))
    IN  FtbText(el) # "" /\ (Contains(e, t) \/ Contains(t, e))

\* C16: the three tiers are applied in order and the first success wins: the
\* envelope of the first paragraph with a polygon that holds 70% of the target's
\* words; otherwise the merge of all lines with a polygon that hold 20% of them;
\* otherwise the polygon of the first element (paragraphs, lines, others) with a
\* polygon whose text contains or is contained in the target; otherwise, or when
\* the target or the element list is empty, none
C16_TiersInOrder ==
    ftb_out # <<>> =>
        LET paras  == SelectSeq(ftb_args.page_layout_elements, is_paragraph_element)
            lines  == SelectSeq(ftb_args.page_layout_elements, is_line_element)
            all    == paras \o lines \o SelectSeq(ftb_args.page_layout_elements, IsOtherElement)
            p1     == {k \in DOMAIN paras : HasPolygon(paras[k]) /\ HoldsShare(paras[k], ParagraphOverlapPct)}
            l2     == {k \in DOMAIN lines : HasPolygon(lines[k]) /\ HoldsShare(lines[k], LineOverlapPct)}
            e3     == {k \in DOMAIN all : HasPolygon(all[k]) /\ TextsContainOneAnother(all[k])}
        IN  IF ftb_args.target_text = "" \/ ftb_args.page_layout_elements = <<>>
            THEN ftb_out[1] = None
            ELSE IF p1 # {} THEN ftb_out[1] = Envelope({paras[MinOr(p1, 0)]})
            ELSE IF l2 # {} THEN ftb_out[1] = Envelope({lines[k] : k \in l2})
            ELSE IF e3 # {} THEN ftb_out[1] = Envelope({all[MinOr(e3, 0)]})
            ELSE ftb_out[1] = None

\* a call in which a paragraph wins although lines and a token would match too
C16_Witness ==
    /\ ftb_out # <<>>
    /\ ftb_args.target_text = FtbTarget
    /\ ftb_args.page_layout_elements = <<TokenEncrypt, LineOne, ParaFull>>
    /\ ftb_out[1] = [x_min |-> 1, y_min |-> 1, x_max |-> 9, y_max |-> 3]

(***************************************************************************)
(* build_traceability_chain (src/api_server_modular.py)                    *)
(*                                                                         *)
(* A node is [id, type, title, standard_type] and an edge is               *)
(* [from, to, relation, type]; an absent key holds Missing, which is also  *)
(* how the value None is written in a field of a returned record.  A       *)
(* returned record has exactly the keys the code gives it.                 *)
(***************************************************************************)

\* str(x) of a string or of None
Str(x) == IF x = Missing THEN "None" ELSE x

IsVerifiedBy(e) ==
    e.relation = "VERIFIED_BY" \/ e.relation = "verified_by" \/ e.type = "VERIFIED_BY"

IsEnsuresCompliance(e) ==
    \/ e.relation = "ENSURES_COMPLIANCE_WITH"
    \/ e.relation = "ensures_compliance_with"
    \/ e.type = "ENSURES_COMPLIANCE_WITH"

IsGovernedBy(e) ==
    e.relation = "GOVERNED_BY" \/ e.relation = "governed_by" \/ e.type = "GOVERNED_BY"

\* next((n for n in kg_nodes if n.get("id") == id and n.get("type") == type), None)
\* as an index into kg_nodes, 0 for None
NodeIndex(kg_nodes, id, type) ==
    MinOr({i \in 1..Len(kg_nodes) : kg_nodes[i].id = id /\ kg_nodes[i].type = type}, 0)

\* the record appended for a test edge and one of its compliance edges
TestChainPath(requirement_id, test_id, test_node, comp_node) ==
    [requirement_id           |-> Str(requirement_id),
     test_case_id             |-> IF Truthy(test_id) THEN Str(test_id) ELSE Missing,
     test_case_title          |-> Str(IF test_node = None THEN test_id
                                      ELSE Get(test_node, "title", test_id)),
     compliance_standard_id   |-> Str(Get(comp_node, "id", "")),
     compliance_standard_name |-> Str(Get(comp_node, "title", "")),
     compliance_standard_type |-> Str(Get(comp_node, "standard_type", "UNKNOWN"))]

\* the record appended for a direct requirement -> compliance edge
DirectChainPath(requirement_id, comp_node) ==
    [requirement_id           |-> Str(requirement_id),
     test_case_id             |-> Missing,
     test_case_title          |-> Missing,
     compliance_standard_id   |-> Str(Get(comp_node, "id", "")),
     compliance_standard_name |-> Str(Get(comp_node, "title", "")),
     compliance_standard_type |-> Str(Get(comp_node, "standard_type", "UNKNOWN")),
     direct_relationship      |-> TRUE]

\* the edges of kg_edges whose "to" is the id of a COMPLIANCE_STANDARD node
ToComplianceNode(kg_nodes, es) ==
    LET Found(e) == NodeIndex(kg_nodes, e.to, "COMPLIANCE_STANDARD") # 0
    IN  SelectSeq(es, Found)

\* the inner loop stopping at the first compliance edge that is a hit
FirstCompliancePathOnly(requirement_id, test_edge, kg_nodes, kg_edges) ==
    LET test_id == test_edge.to
        ti == NodeIndex(kg_nodes, test_id, "TEST_CASE")
        test_node == IF ti = 0 THEN None ELSE kg_nodes[ti]
        FromTest(e) == e.from = test_id /\ IsEnsuresCompliance(e)
        hits == ToComplianceNode(kg_nodes, SelectSeq(kg_edges, FromTest))
    IN  IF hits = <<>> THEN <<>>
        ELSE <<TestChainPath(requirement_id, test_id, test_node,
                   kg_nodes[NodeIndex(kg_nodes, hits[1].to, "COMPLIANCE_STANDARD")])>>

\* the inner loop: what one test edge appends
TestEdgePaths(requirement_id, test_edge, kg_nodes, kg_edges) ==
    LET test_id == test_edge.to
        ti == NodeIndex(kg_nodes, test_id, "TEST_CASE")
        test_node == IF ti = 0 THEN None ELSE kg_nodes[ti]
        FromTest(e) == e.from = test_id /\ IsEnsuresCompliance(e)
        compliance_edges == SelectSeq(kg_edges, FromTest)
        hits == ToComplianceNode(kg_nodes, compliance_edges)
    IN  [k \in 1..Len(hits) |->
            TestChainPath(requirement_id, test_id, test_node,
                          kg_nodes[NodeIndex(kg_nodes, hits[k].to, "COMPLIANCE_STANDARD")])]

build_traceability_chain(requirement_id, knowledge_graph) ==
    LET kg_nodes == knowledge_graph.nodes
        kg_edges == knowledge_graph.edges
        FromReqVerified(e) == e.from = requirement_id /\ IsVerifiedBy(e)
        FromReqGoverned(e) == e.from = requirement_id /\ IsGovernedBy(e)
        test_edges == SelectSeq(kg_edges, FromReqVerified)
        req_to_comp_edges == ToComplianceNode(kg_nodes, SelectSeq(kg_edges, FromReqGoverned))
        mediated == Flatten([k \in 1..Len(test_edges) |->
                                TestEdgePaths(requirement_id, test_edges[k], kg_nodes, kg_edges)], 1)
        direct == [k \in 1..Len(req_to_comp_edges) |->
                      DirectChainPath(requirement_id,
                          kg_nodes[NodeIndex(kg_nodes, req_to_comp_edges[k].to,
                                             "COMPLIANCE_STANDARD")])]
    IN  IF kg_nodes = <<>> \/ kg_edges = <<>> THEN <<>> ELSE mediated \o direct

(***************************************************************************)
(* build_traceability_chain as a state machine: one call on a snapshot     *)
(***************************************************************************)

MaxEdges == 3

KgNode(id, type, title, standard_type) ==
    [id |-> id, type |-> type, title |-> title, standard_type |-> standard_type]

KgEdge(from, to, relation, type) ==
    [from |-> from, to |-> to, relation |-> relation, type |-> type]

NodeReq1  == KgNode("REQ-001", "REQUIREMENT", "REQ-001", Missing)
NodeTc1   == KgNode("TC-1", "TEST_CASE", "Login test", Missing)
NodeComp1 == KgNode("COMP_001", "COMPLIANCE_STANDARD", "GDPR", "GDPR")
NodeComp2 == KgNode("COMP_002", "COMPLIANCE_STANDARD", "HIPAA", Missing)

\* node lists: none, the three nodes of a chain, a second standard and no test node
ChainNodeLists ==
    { <<>>,
      <<NodeReq1, NodeTc1, NodeComp1>>,
      <<NodeReq1, NodeComp1, NodeComp2>> }

ChainEdgePool ==
    { KgEdge("REQ-001", "TC-1", "VERIFIED_BY", Missing),
      KgEdge("REQ-001", "TC-1", Missing, "VERIFIED_BY"),
      KgEdge("REQ-001", Missing, "verified_by", Missing),
      KgEdge("TC-1", "COMP_001", "ENSURES_COMPLIANCE_WITH", Missing),
      KgEdge("TC-1", "COMP_002", "ensures_compliance_with", Missing),
      KgEdge(Missing, "COMP_001", Missing, "ENSURES_COMPLIANCE_WITH"),
      KgEdge("TC-1", "REQ-001", "ENSURES_COMPLIANCE_WITH", Missing),
      KgEdge("REQ-001", "COMP_001", "GOVERNED_BY", Missing),
      KgEdge("REQ-001", "COMP_002", Missing, "GOVERNED_BY") }

ChainRequirementIds == {"REQ-001", "REQ-002"}

InitChain ==
    /\ chain_args \in [requirement_id : ChainRequirementIds,
                       knowledge_graph : [nodes : ChainNodeLists,
                                          edges : BoundedSeqs(ChainEdgePool, MaxEdges)]]
    /\ chain_out = <<>>
    /\ IdleKG /\ IdleNorm /\ IdleDet /\ IdleBox /\ IdleExp /\ IdleFtb /\ IdleTrace /\ IdleRuns /\ IdlePipe

ChainCall ==
    /\ chain_out = <<>>
    /\ chain_out' = <<build_traceability_chain(chain_args.requirement_id,
                                               chain_args.knowledge_graph)>>
    /\ UNCHANGED <<chain_args, kgVars, normVars, detVars, boxVars, expVars, ftbVars, traceVars, runsVars, pipeVars>>

NextChain == ChainCall

SpecChain == InitChain /\ [][NextChain]_vars

\* the records the call returned
ChainPaths == chain_out[1]

ChainEdges == chain_args.knowledge_graph.edges

ChainNodes == chain_args.knowledge_graph.nodes

IsDirectPath(r) == "direct_relationship" \in DOMAIN r

\* C17: for any graph snapshot, repeated and parallel edges included, and any
\* requirement id, no two records returned by build_traceability_chain have the
\* same (test case id, compliance standard id) pair.
C17_NoDuplicatePairs ==
    chain_out # <<>> =>
        \A i, j \in 1..Len(ChainPaths) :
            (/\ ChainPaths[i].test_case_id = ChainPaths[j].test_case_id
             /\ ChainPaths[i].compliance_standard_id = ChainPaths[j].compliance_standard_id)
            => i = j

\* the index pairs <<i, j>> of a verifies edge from the query requirement and
\* an ensures-compliance edge that leaves the verifies edge's target and ends
\* at an existing COMPLIANCE_STANDARD node
MediatedPairs ==
    {p \in (1..Len(ChainEdges)) \X (1..Len(ChainEdges)) :
        /\ ChainEdges[p[1]].from = chain_args.requirement_id
        /\ IsVerifiedBy(ChainEdges[p[1]])
        /\ ChainEdges[p[2]].from = ChainEdges[p[1]].to
        /\ IsEnsuresCompliance(ChainEdges[p[2]])
        /\ \E n \in 1..Len(ChainNodes) :
              /\ ChainNodes[n].id = ChainEdges[p[2]].to
              /\ ChainNodes[n].type = "COMPLIANCE_STANDARD"}

\* record r carries the ids of the pair p: requirement R, test case T (no id
\* where the verifies edge names none) and compliance standard C
CarriesPair(r, p) ==
    /\ r.requirement_id = chain_args.requirement_id
    /\ r.test_case_id = (IF Truthy(ChainEdges[p[1]].to) THEN ChainEdges[p[1]].to ELSE Missing)
    /\ r.compliance_standard_id = ChainEdges[p[2]].to

SamePairIds(p, q) ==
    /\ ChainEdges[p[1]].to = ChainEdges[q[1]].to
    /\ ChainEdges[p[2]].to = ChainEdges[q[2]].to

\* the snapshot of the spec's example: one VERIFIED_BY edge REQ-001 -> TC-1 and
\* one ENSURES_COMPLIANCE_WITH edge TC-1 -> COMP_001, queried for REQ-001
ChainExample ==
    /\ chain_args.requirement_id = "REQ-001"
    /\ ChainNodes = <<NodeReq1, NodeTc1, NodeComp1>>
    /\ ChainEdges = <<KgEdge("REQ-001", "TC-1", "VERIFIED_BY", Missing),
                      KgEdge("TC-1", "COMP_001", "ENSURES_COMPLIANCE_WITH", Missing)>>

\* C18: for any snapshot and requirement id R, build_traceability_chain returns
\* exactly one test-mediated record for each pair of a verifies edge R -> T and
\* an ensures-compliance edge T -> C whose target C is an existing
\* COMPLIANCE_STANDARD node, and no other test-mediated record; each carries
\* R, T and C.  For the example snapshot the result is exactly one record
\* linking REQ-001, TC-1 and COMP_001.
C18_OneRecordPerEdgePair ==
    chain_out # <<>> =>
        LET mediated == {k \in 1..Len(ChainPaths) : ~IsDirectPath(ChainPaths[k])}
            pairs == MediatedPairs
        IN  /\ \A k \in mediated : \E p \in pairs : CarriesPair(ChainPaths[k], p)
            /\ \A p \in pairs :
                  Cardinality({k \in mediated : CarriesPair(ChainPaths[k], p)})
                    = Cardinality({q \in pairs : SamePairIds(p, q)})
            /\ ChainExample =>
                  /\ Len(ChainPaths) = 1
                  /\ ChainPaths[1].requirement_id = "REQ-001"
                  /\ ChainPaths[1].test_case_id = "TC-1"
                  /\ ChainPaths[1].compliance_standard_id = "COMP_001"

\* the example snapshot after the call, one record returned
C18_Witness ==
    /\ chain_out # <<>>
    /\ ChainExample
    /\ Len(ChainPaths) = 1
    /\ ~IsDirectPath(ChainPaths[1])

\* the indices of the governed-by edges from the query requirement that end at
\* an existing COMPLIANCE_STANDARD node
DirectEdges ==
    {i \in 1..Len(ChainEdges) :
        /\ ChainEdges[i].from = chain_args.requirement_id
        /\ IsGovernedBy(ChainEdges[i])
        /\ \E n \in 1..Len(ChainNodes) :
              /\ ChainNodes[n].id = ChainEdges[i].to
              /\ ChainNodes[n].type = "COMPLIANCE_STANDARD"}

\* C19: build_traceability_chain returns one record per direct governed-by edge
\* from the query requirement to an existing COMPLIANCE_STANDARD node, flagged
\* direct and without test case; and in every snapshot, verifies edges without
\* target id included, a record carries the direct flag if and only if it has
\* no test case id.
C19_DirectIffNoTestCase ==
    chain_out # <<>> =>
        LET direct == {k \in 1..Len(ChainPaths) : IsDirectPath(ChainPaths[k])}
        IN  /\ \A k \in direct : \E i \in DirectEdges :
                  ChainPaths[k].compliance_standard_id = ChainEdges[i].to
            /\ \A i \in DirectEdges :
                  Cardinality({k \in direct :
                                  ChainPaths[k].compliance_standard_id = ChainEdges[i].to})
                    = Cardinality({j \in DirectEdges : ChainEdges[j].to = ChainEdges[i].to})
            /\ \A k \in 1..Len(ChainPaths) :
                  IsDirectPath(ChainPaths[k]) <=> ChainPaths[k].test_case_id = Missing

(***************************************************************************)
(* get_traceability_endpoint (src/api_server_modular.py)                   *)
(*                                                                         *)
(* response_data is [knowledge_graph, test_categories, traceability_matrix,*)
(* requirement_coverage]: the four parts the handler takes out of the      *)
(* body, an absent part being its default, the empty list; a body that is  *)
(* absent or empty is EmptyDict.  A query parameter that is not given is   *)
(* Missing.  A page number or confidence that is absent or not a number is *)
(* NoNumber, which also stands for None in the answer; a confidence is in  *)
(* hundredths.  sanitize_for_json returns str, int, None, lists and dicts  *)
(* of these as they are, and the model has no other values.                *)
(***************************************************************************)

NoNumber == -1

HttpError(code) == [status_code |-> code]

\* the index of the first element of a list with the given key value, 0 for None
FirstWith(list, key, value) ==
    MinOr({i \in 1..Len(list) : list[i][key] = value}, 0)

\* the test case with test_id test_case_id of the first category that has
\* one, None if no category has one
FindTestCase(test_categories, test_case_id) ==
    LET hit == {c \in 1..Len(test_categories) :
                   FirstWith(test_categories[c].test_cases, "test_id", test_case_id) # 0}
    IN  IF hit = {} THEN None
        ELSE LET c == MinOr(hit, 0)
             IN  test_categories[c].test_cases[
                     FirstWith(test_categories[c].test_cases, "test_id", test_case_id)]

\* the four fields kept of a linked test case
LinkedTestCase(tc) ==
    [test_id  |-> Str(Get(tc, "test_id", "")),
     title    |-> Str(Get(tc, "title", "")),
     category |-> Str(Get(tc, "category", "")),
     priority |-> Str(Get(tc, "priority", ""))]

LinkedTestCases(raw) == [k \in 1..Len(raw) |-> LinkedTestCase(raw[k])]

\* the indices of keys whose value did not occur at a smaller index
FirstOccurrences(keys) ==
    {k \in 1..Len(keys) : \A j \in 1..(k - 1) : keys[j] # keys[k]}

\* the loop "if std_id and std_id not in seen_std_ids: add, append" over
\* candidate standards [standard_id, standard_name, standard_type]
DedupStandards(cands) ==
    LET ids == [k \in 1..Len(cands) |-> cands[k].standard_id]
        kept == SortedSeqOf({k \in FirstOccurrences(ids) : ids[k] # ""})
    IN  [k \in 1..Len(kept) |-> cands[kept[k]]]

\* the standard read off a traceability-matrix entry
StandardOfEntry(std) ==
    [standard_id   |-> Str(Get(std, "standard_id", "")),
     standard_name |-> Str(Get(std, "standard_name", "")),
     standard_type |-> Str(Get(std, "standard_type", "UNKNOWN"))]

\* the standard read off a COMPLIANCE_STANDARD node
StandardOfNode(n) ==
    [standard_id   |-> Str(Get(n, "id", "")),
     standard_name |-> Str(Get(n, "title", "")),
     standard_type |-> Str(Get(n, "standard_type", "UNKNOWN"))]

\* next((n for n in kg_nodes if type is COMPLIANCE_STANDARD and
\*       (title == std_name or id == std_name)), None) as an index, 0 for None
StandardNodeIndex(kg_nodes, std_name) ==
    MinOr({i \in 1..Len(kg_nodes) :
              /\ kg_nodes[i].type = "COMPLIANCE_STANDARD"
              /\ (kg_nodes[i].title = std_name \/ kg_nodes[i].id = std_name)}, 0)

\* requirement_details of a matrix entry or of a requirement node
RequirementDetails(id, text, page_number, confidence) ==
    [id         |-> Str(id),
     text       |-> Str(text),
     page       |-> page_number,
     confidence |-> IF confidence = NoNumber THEN 0 ELSE confidence]

\* [requirement, linked_test_cases, compliance_standards] from the matrix entry
FromMatrixEntry(req_entry) ==
    [requirement |->
        RequirementDetails(Get(req_entry, "requirement_id", ""),
                           IF Truthy(req_entry.requirement_full_text)
                           THEN req_entry.requirement_full_text
                           ELSE Get(req_entry, "requirement_text", ""),
                           req_entry.page_number, req_entry.confidence),
     linked_test_cases |-> LinkedTestCases(req_entry.test_cases),
     compliance_standards |->
        DedupStandards([k \in 1..Len(req_entry.compliance_standards) |->
                           StandardOfEntry(req_entry.compliance_standards[k])])]

\* linked test cases and standards of a requirement_coverage entry
FromCoverage(req_coverage, kg_nodes) ==
    LET Known(std_name) == StandardNodeIndex(kg_nodes, std_name) # 0
        names == SelectSeq(req_coverage.compliance_standards, Known)
    IN  [linked_test_cases |-> LinkedTestCases(req_coverage.test_cases),
         compliance_standards |->
            DedupStandards([k \in 1..Len(names) |->
                               StandardOfNode(kg_nodes[StandardNodeIndex(kg_nodes, names[k])])])]

\* linked test cases searched in all categories, standards from GOVERNED_BY edges
FromCategories(requirement_id, test_categories, kg_nodes, kg_edges) ==
    LET all_test_cases == Flatten([c \in 1..Len(test_categories) |->
                                      test_categories[c].test_cases], 1)
        Derived(tc) == tc.derived_from = requirement_id
        Governs(e) == e.from = requirement_id /\ e.relation = "GOVERNED_BY"
        hits == ToComplianceNode(kg_nodes, SelectSeq(kg_edges, Governs))
    IN  [linked_test_cases |-> LinkedTestCases(SelectSeq(all_test_cases, Derived)),
         compliance_standards |->
            DedupStandards([k \in 1..Len(hits) |->
                               StandardOfNode(kg_nodes[NodeIndex(kg_nodes, hits[k].to,
                                                                 "COMPLIANCE_STANDARD")])])]

\* the record synthesized for a linked test case and a standard
InferredChainPath(requirement_id, test_case, std) ==
    [requirement_id           |-> Str(requirement_id),
     test_case_id             |-> IF Truthy(test_case.test_id) THEN Str(test_case.test_id)
                                  ELSE Missing,
     test_case_title          |-> Str(Get(test_case, "title", "")),
     compliance_standard_id   |-> Str(Get(std, "standard_id", "")),
     compliance_standard_name |-> Str(Get(std, "standard_name", "")),
     compliance_standard_type |-> Str(Get(std, "standard_type", "UNKNOWN")),
     inferred_from_data       |-> TRUE]

\* the record synthesized for a standard alone
InferredDirectPath(requirement_id, std) ==
    [requirement_id           |-> Str(requirement_id),
     test_case_id             |-> Missing,
     test_case_title          |-> Missing,
     compliance_standard_id   |-> Str(Get(std, "standard_id", "")),
     compliance_standard_name |-> Str(Get(std, "standard_name", "")),
     compliance_standard_type |-> Str(Get(std, "standard_type", "UNKNOWN")),
     direct_relationship      |-> TRUE,
     inferred_from_data       |-> TRUE]

\* the <<test case index, standard index>> pairs in the order of the nested loops
LoopPairs(n_tests, n_stds) ==
    [k \in 1..(n_tests * n_stds) |-> <<((k - 1) \div n_stds) + 1, ((k - 1) % n_stds) + 1>>]

\* the nested loops over linked_test_cases and compliance_standards with seen_chains
SynthesizeMediated(requirement_id, linked_test_cases, compliance_standards) ==
    LET pairs == LoopPairs(Len(linked_test_cases), Len(compliance_standards))
        keys == [k \in 1..Len(pairs) |->
                    <<linked_test_cases[pairs[k][1]].test_id,
                      Str(Get(compliance_standards[pairs[k][2]], "standard_id", ""))>>]
        kept == SortedSeqOf(FirstOccurrences(keys))
    IN  [k \in 1..Len(kept) |->
            InferredChainPath(requirement_id, linked_test_cases[pairs[kept[k]][1]],
                              compliance_standards[pairs[kept[k]][2]])]

\* the loop over compliance_standards with seen_direct
SynthesizeDirect(requirement_id, compliance_standards) ==
    LET ids == [k \in 1..Len(compliance_standards) |->
                   Str(Get(compliance_standards[k], "standard_id", ""))]
        kept == SortedSeqOf(FirstOccurrences(ids))
    IN  [k \in 1..Len(kept) |-> InferredDirectPath(requirement_id, compliance_standards[kept[k]])]

\* the chain with the synthesized records added whatever the edge walk returned
ChainAlwaysSynthesized(requirement_id, knowledge_graph, linked_test_cases, compliance_standards) ==
    LET walked == build_traceability_chain(requirement_id, knowledge_graph)
    IN  IF linked_test_cases # <<>> /\ compliance_standards # <<>>
        THEN walked \o SynthesizeMediated(requirement_id, linked_test_cases, compliance_standards)
             \o SynthesizeDirect(requirement_id, compliance_standards)
        ELSE walked

\* traceability_chain: the edge walk, else the chain built from the two lists
TraceabilityChain(requirement_id, knowledge_graph, linked_test_cases, compliance_standards) ==
    LET walked == build_traceability_chain(requirement_id, knowledge_graph)
    IN  IF walked = <<>> /\ linked_test_cases # <<>> /\ compliance_standards # <<>>
        THEN SynthesizeMediated(requirement_id, linked_test_cases, compliance_standards)
             \o SynthesizeDirect(requirement_id, compliance_standards)
        ELSE walked

\* the answer once requirement_id is determined
AnswerFor(test_case_id, requirement_id, response_data) ==
    LET kg_nodes == response_data.knowledge_graph.nodes
        kg_edges == response_data.knowledge_graph.edges
        mi == FirstWith(response_data.traceability_matrix, "requirement_id", requirement_id)
        ni == NodeIndex(kg_nodes, requirement_id, "REQUIREMENT")
        ci == FirstWith(response_data.requirement_coverage, "requirement_id", requirement_id)
        found == IF mi # 0 THEN FromMatrixEntry(response_data.traceability_matrix[mi])
                 ELSE IF ci # 0
                      THEN FromCoverage(response_data.requirement_coverage[ci], kg_nodes)
                      ELSE FromCategories(requirement_id, response_data.test_categories,
                                          kg_nodes, kg_edges)
        requirement_details ==
            IF mi # 0 THEN found.requirement
            ELSE RequirementDetails(Get(kg_nodes[ni], "id", ""), Get(kg_nodes[ni], "text", ""),
                                    kg_nodes[ni].page_number, kg_nodes[ni].confidence)
        traceability_chain ==
            TraceabilityChain(requirement_id, response_data.knowledge_graph,
                              found.linked_test_cases, found.compliance_standards)
    IN  IF mi = 0 /\ ni = 0 THEN HttpError(404)
        ELSE [status |-> "success",
              requirement |-> requirement_details,
              linked_test_cases |-> found.linked_test_cases,
              compliance_standards |-> found.compliance_standards,
              traceability_chain |-> traceability_chain,
              metadata |-> [requirement_id |-> Str(requirement_id),
                            test_case_id |-> IF Truthy(test_case_id) THEN Str(test_case_id)
                                             ELSE Missing,
                            total_test_cases |-> Len(found.linked_test_cases),
                            total_compliance_standards |-> Len(found.compliance_standards),
                            chain_paths |-> Len(traceability_chain)]]

\* does content_type hold the substring?
InContentType(sub, content_type) == Contains(content_type, sub)

get_traceability_endpoint(content_type, test_case_id, requirement_id, response_data) ==
    IF \/ InContentType("multipart/form-data", content_type)
       \/ InContentType("application/x-www-form-urlencoded", content_type)
    THEN HttpError(400)
    ELSE IF ~Truthy(test_case_id) /\ ~Truthy(requirement_id) THEN HttpError(400)
    ELSE IF response_data = EmptyDict THEN HttpError(400)
    ELSE IF Truthy(test_case_id) /\ ~Truthy(requirement_id)
         THEN LET test_case == FindTestCase(response_data.test_categories, test_case_id)
              IN  IF test_case = None THEN HttpError(404)
                  ELSE IF ~Truthy(test_case.derived_from) THEN HttpError(404)
                  ELSE AnswerFor(test_case_id, test_case.derived_from, response_data)
         ELSE AnswerFor(test_case_id, requirement_id, response_data)

(***************************************************************************)
(* get_traceability_endpoint as a state machine: one request               *)
(***************************************************************************)

MaxLinked == 2

TraceNode(id, type, title, standard_type, text, page_number, confidence) ==
    [id |-> id, type |-> type, title |-> title, standard_type |-> standard_type,
     text |-> text, page_number |-> page_number, confidence |-> confidence]

TraceReq1  == TraceNode("REQ-001", "REQUIREMENT", "REQ-001", Missing,
                        "The system shall encrypt data", 1, 80)
TraceTc1   == TraceNode("TC-1", "TEST_CASE", "Login test", Missing, Missing, NoNumber, NoNumber)
TraceComp1 == TraceNode("COMP_001", "COMPLIANCE_STANDARD", "GDPR", "GDPR",
                        Missing, NoNumber, NoNumber)
TraceComp2 == TraceNode("COMP_002", "COMPLIANCE_STANDARD", "HIPAA", Missing,
                        Missing, NoNumber, NoNumber)

TraceNodes == <<TraceReq1, TraceTc1, TraceComp1, TraceComp2>>

\* a graph without nodes, one as the graph builder leaves it (test -> requirement
\* edges, no ensures-compliance edge), one with a chain of edges, one with a
\* direct edge only
TraceGraphs ==
    { [nodes |-> <<>>, edges |-> <<>>],
      [nodes |-> TraceNodes,
       edges |-> <<KgEdge("TC-1", "REQ-001", "VERIFIED_BY", Missing)>>],
      [nodes |-> TraceNodes,
       edges |-> <<KgEdge("REQ-001", "TC-1", "VERIFIED_BY", Missing),
                   KgEdge("TC-1", "COMP_001", "ENSURES_COMPLIANCE_WITH", Missing)>>],
      [nodes |-> TraceNodes,
       edges |-> <<KgEdge("REQ-001", "COMP_002", "GOVERNED_BY", Missing),
                   KgEdge("REQ-001", "COMP_001", "governed_by", Missing),
                   KgEdge("REQ-001", "COMP_002", "GOVERNED_BY", Missing)>>] }

RawTestCase(test_id, title, derived_from) ==
    [test_id |-> test_id, title |-> title, category |-> "functional",
     priority |-> Missing, derived_from |-> derived_from]

RawTestCases ==
    { RawTestCase("TC-1", "Login test", "REQ-001"),
      RawTestCase(Missing, "Unnamed", "REQ-001"),
      RawTestCase("TC-9", "Orphan", Missing) }

RawStandard(standard_id, standard_name, standard_type) ==
    [standard_id |-> standard_id, standard_name |-> standard_name,
     standard_type |-> standard_type]

RawStandards ==
    { RawStandard("COMP_001", "GDPR", "GDPR"),
      RawStandard("COMP_002", "HIPAA", Missing),
      RawStandard(Missing, "ISO", Missing) }

\* names as flow_visualization lists them: a title, the id of the same
\* standard, an unknown name
StandardNames == {"GDPR", "COMP_001", "SOX"}

MatrixEntry(requirement_id, test_cases_raw, standards_raw) ==
    [requirement_id |-> requirement_id,
     requirement_full_text |-> Missing,
     requirement_text |-> "The system shall encrypt data",
     page_number |-> 1, confidence |-> NoNumber,
     test_cases |-> test_cases_raw, compliance_standards |-> standards_raw]

CoverageEntry(requirement_id, test_cases_raw, names) ==
    [requirement_id |-> requirement_id, test_cases |-> test_cases_raw,
     compliance_standards |-> names]

\* the bodies: the requirement found in the matrix, in the coverage list (the
\* matrix holding another requirement), or in neither
TraceBodies ==
    {EmptyDict}
    \cup { [knowledge_graph |-> g, test_categories |-> <<[test_cases |-> tcs]>>,
            traceability_matrix |-> <<MatrixEntry("REQ-002", <<>>, <<>>),
                                      MatrixEntry("REQ-001", tcs, stds)>>,
            requirement_coverage |-> <<>>] :
              g \in TraceGraphs, tcs \in BoundedSeqs(RawTestCases, MaxLinked),
              stds \in BoundedSeqs(RawStandards, MaxLinked) }
    \cup { [knowledge_graph |-> g, test_categories |-> <<>>,
            traceability_matrix |-> <<MatrixEntry("REQ-002", <<>>, <<>>)>>,
            requirement_coverage |-> <<CoverageEntry("REQ-001", tcs, names)>>] :
              g \in TraceGraphs, tcs \in BoundedSeqs(RawTestCases, MaxLinked),
              names \in BoundedSeqs(StandardNames, MaxLinked) }
    \cup { [knowledge_graph |-> g,
            test_categories |-> <<[test_cases |-> <<>>], [test_cases |-> tcs]>>,
            traceability_matrix |-> <<>>, requirement_coverage |-> <<>>] :
              g \in TraceGraphs, tcs \in BoundedSeqs(RawTestCases, MaxLinked) }

ContentJson == "application/json"

ContentUpload == "multipart/form-data; boundary=x"

\* the requests: <<content type, test_case_id, requirement_id>>
TraceQueries ==
    { <<ContentJson, Missing, Missing>>, <<ContentJson, Missing, "REQ-001">>,
      <<ContentJson, Missing, "REQ-404">>, <<ContentJson, "TC-1", Missing>>,
      <<ContentJson, "TC-9", Missing>>, <<ContentJson, "TC-2", "REQ-001">>,
      <<ContentUpload, Missing, "REQ-001">> }

InitTrace ==
    /\ \E q \in TraceQueries, body \in TraceBodies :
          trace_args = [content_type |-> q[1], test_case_id |-> q[2],
                        requirement_id |-> q[3], response_data |-> body]
    /\ trace_out = <<>>
    /\ IdleKG /\ IdleNorm /\ IdleDet /\ IdleBox /\ IdleExp /\ IdleFtb /\ IdleChain /\ IdleRuns /\ IdlePipe

TraceRequest ==
    /\ trace_out = <<>>
    /\ trace_out' = <<get_traceability_endpoint(trace_args.content_type,
                          trace_args.test_case_id, trace_args.requirement_id,
                          trace_args.response_data)>>
    /\ UNCHANGED <<trace_args, kgVars, normVars, detVars, boxVars, expVars, ftbVars, chainVars, runsVars, pipeVars>>

NextTrace == TraceRequest

SpecTrace == InitTrace /\ [][NextTrace]_vars

\* the answer of the request
TraceAnswer == trace_out[1]

\* the request was answered with a result, not with an HTTP error
TraceSucceeded == trace_out # <<>> /\ "traceability_chain" \in DOMAIN TraceAnswer

IsInferredPath(r) == "inferred_from_data" \in DOMAIN r

\* what the walk over the graph edges returns for the requirement of the answer
TraceWalked ==
    build_traceability_chain(TraceAnswer.metadata.requirement_id,
                             trace_args.response_data.knowledge_graph)

\* C20: in the traceability query chain records are synthesized from the linked
\* test cases and compliance standards only when the walk over the graph edges
\* returned no record; every synthesized record is flagged inferred and carries
\* the query requirement id; no two synthesized test-mediated records have the
\* same (test id, standard id) pair; records derived from edges and inferred
\* records never occur in the same answer.
C20_InferredOnlyWithoutEdges ==
    TraceSucceeded =>
        LET chain == TraceAnswer.traceability_chain
            inferred == {k \in 1..Len(chain) : IsInferredPath(chain[k])}
        IN  /\ TraceWalked # <<>> => chain = TraceWalked /\ inferred = {}
            /\ TraceWalked = <<>> => inferred = 1..Len(chain)
            /\ \A k \in inferred :
                  chain[k].requirement_id = TraceAnswer.metadata.requirement_id
            /\ \A i, j \in inferred :
                  (/\ ~IsDirectPath(chain[i]) /\ ~IsDirectPath(chain[j])
                   /\ chain[i].test_case_id = chain[j].test_case_id
                   /\ chain[i].compliance_standard_id = chain[j].compliance_standard_id)
                  => i = j
            /\ inferred = {} \/ inferred = 1..Len(chain)

\* an answer built from the lists, a linked test case listed twice: the edge
\* walk returned nothing and the pair of the repeated test case occurs once
C20_Witness ==
    /\ TraceSucceeded
    /\ TraceWalked = <<>>
    /\ Len(TraceAnswer.linked_test_cases) = 2
    /\ TraceAnswer.linked_test_cases[1].test_id = TraceAnswer.linked_test_cases[2].test_id
    /\ Len(TraceAnswer.compliance_standards) = 2
    /\ Len(TraceAnswer.traceability_chain) = 4
    /\ \A k \in 1..4 : IsInferredPath(TraceAnswer.traceability_chain[k])

(***************************************************************************)
(* Properties of the test-case loop of the graph builder                   *)
(***************************************************************************)

RECURSIVE DraftIdsFrom(_, _, _)
\* for the drafts from k on: the test id the loop computes for each and whether
\* the draft is the first with that id (seen: the ids met before k)
DraftIdsFrom(tcs, k, seen) ==
    IF k > Len(tcs) THEN <<>>
    ELSE LET test_id == Get(tcs[k], "id", "TC_" \o Pad3(Cardinality(seen) + 1))
         IN  <<[id |-> test_id, first |-> test_id \notin seen]>>
             \o DraftIdsFrom(tcs, k + 1, seen \cup {test_id})

DraftIds == DraftIdsFrom(test_cases, 1, {})

\* the returned graph has a REQUIREMENT node with this id
HasRequirementNode(g, id) ==
    \E i \in DOMAIN g.nodes : g.nodes[i].type = "REQUIREMENT" /\ g.nodes[i].id = id

\* the indices of the VERIFIED_BY edges the test-case loop appended
TestEdgeIdx(g) ==
    {k \in DOMAIN g.edges :
        g.edges[k].source = "test_generation" /\ g.edges[k].relation = "VERIFIED_BY"}

\* the edges of the test-case loop that join draft d's test id and requirement
EdgesOfDraft(g, d) ==
    {k \in TestEdgeIdx(g) :
        g.edges[k].from = DraftIds[d].id /\ g.edges[k].to = test_cases[d].derived_from}

\* no edge of the test-case loop dangles and every TEST_CASE node has confidence 0.9
TestEdgesSound(g) ==
    /\ \A k \in TestEdgeIdx(g) :
          /\ \E i \in DOMAIN g.nodes :
                g.nodes[i].type = "TEST_CASE" /\ g.nodes[i].id = g.edges[k].from
          /\ HasRequirementNode(g, g.edges[k].to)
    /\ \A i \in DOMAIN g.nodes :
          g.nodes[i].type = "TEST_CASE" => g.nodes[i].confidence = TestConfidence

\* C21 as stated: for every supplied test case a VERIFIED_BY edge is created if
\* and only if its derived_from names a REQUIREMENT node of the finished graph;
\* no such edge dangles; every TEST_CASE node has confidence 0.9.
C21_EdgeIffRequirementExists ==
    \A r \in DOMAIN results :
        results[r].status = "success" =>
            /\ \A d \in DOMAIN test_cases :
                  EdgesOfDraft(results[r], d) # {}
                    <=> HasRequirementNode(results[r], test_cases[d].derived_from)
            /\ TestEdgesSound(results[r])

\* C21 amended: the same for every supplied test case that is the first of the
\* list with its test id; a later draft with an id already met adds neither a
\* node nor an edge.
C21_EdgeIffRequirementExistsFirstDraft ==
    \A r \in DOMAIN results :
        results[r].status = "success" =>
            /\ \A d \in DOMAIN test_cases :
                  DraftIds[d].first =>
                     /\ EdgesOfDraft(results[r], d) # {}
                          <=> HasRequirementNode(results[r], test_cases[d].derived_from)
                     /\ Cardinality(EdgesOfDraft(results[r], d)) <= 1
            /\ Cardinality(TestEdgeIdx(results[r]))
                 = Cardinality({d \in DOMAIN test_cases :
                                   /\ DraftIds[d].first
                                   /\ HasRequirementNode(results[r], test_cases[d].derived_from)})
            /\ Cardinality({i \in DOMAIN results[r].nodes : results[r].nodes[i].type = "TEST_CASE"})
                 = Cardinality({d \in DOMAIN test_cases : DraftIds[d].first})
            /\ TestEdgesSound(results[r])

\* a graph returned for three drafts: one without id whose requirement is
\* unknown (node, no edge), one with an edge, one with a repeated id
C21_Witness ==
    /\ Len(results) >= 1 /\ results[1].status = "success"
    /\ Len(test_cases) = 3
    /\ test_cases[1].derived_from = "REQ-404"
    /\ Cardinality(TestEdgeIdx(results[1])) = 1
    /\ \E i \in DOMAIN results[1].nodes : results[1].nodes[i].id = "TC_001"

(***************************************************************************)
(* Properties of unrecognized compliance strings                           *)
(***************************************************************************)

\* the compliance strings of a chunk list: the raw ids of the detected entities
\* and the targets of the relationships of class COMPLIANCE_STANDARD
ComplianceStrings(cs) ==
    UNION { {Get(cs[c].detected_compliance[k], "id",
                 Get(cs[c].detected_compliance[k], "standard", "")) :
                k \in DOMAIN cs[c].detected_compliance}
            \cup {cs[c].relationships[k].target_id :
                    k \in {h \in DOMAIN cs[c].relationships :
                              IsComplianceTarget(cs[c].relationships[h])}} :
            c \in DOMAIN cs }

\* a string that is given and is no alias of the normalizer's table
Unrecognized(raw) == Truthy(raw) /\ Strip(Lower(raw)) \notin NormalizationKeys

\* C22: every compliance string that is no alias of the normalizer's table goes
\* through the graph builder unchanged: the call returns a graph, one
\* COMPLIANCE_STANDARD node is titled with the string itself, and that node's
\* standard type is UNKNOWN, also for strings that begin with the name of a
\* known regime (ISO9001:2015, HIPAA:45-CFR-164).
C22_UnrecognizedPassThrough ==
    \A r \in DOMAIN results :
        \A raw \in ComplianceStrings(chunks) :
            Unrecognized(raw) =>
                /\ results[r].status = "success"
                /\ \E i \in DOMAIN results[r].nodes :
                      /\ results[r].nodes[i].type = "COMPLIANCE_STANDARD"
                      /\ results[r].nodes[i].title = raw
                /\ \A i \in DOMAIN results[r].nodes :
                      (/\ results[r].nodes[i].type = "COMPLIANCE_STANDARD"
                       /\ results[r].nodes[i].title = raw)
                      => results[r].nodes[i].standard_type = "UNKNOWN"

(***************************************************************************)
(* Properties of the edge ids                                              *)
(***************************************************************************)

\* C30: in every returned edge list no two edges have the same id, whatever the
\* mix of relationships with an edge_id of their own, relationships whose id
\* is generated as edge_NNN from the edge count, and VERIFIED_BY edges of test
\* cases.
C30_NoDuplicateEdgeIds == \A r \in DOMAIN results : DistinctIds(results[r].edges)

(***************************************************************************)
(* Properties of the VERIFIED_BY edges as the chain reconstruction reads   *)
(* them                                                                    *)
(***************************************************************************)

\* a returned graph as build_traceability_chain receives it: the builder's edge
\* dicts have no "type" key
AsSnapshot(g) ==
    [nodes |-> g.nodes,
     edges |-> [k \in DOMAIN g.edges |->
                   KgEdge(g.edges[k].from, g.edges[k].to, g.edges[k].relation, Missing)]]

\* the test ids build_traceability_chain walks from a requirement: the "to" of
\* its test_edges
VerifiedTests(requirement_id, knowledge_graph) ==
    {knowledge_graph.edges[k].to :
        k \in {h \in DOMAIN knowledge_graph.edges :
                  /\ knowledge_graph.edges[h].from = requirement_id
                  /\ IsVerifiedBy(knowledge_graph.edges[h])}}

\* C28: every VERIFIED_BY edge the test-case loop emits goes from the
\* requirement (derived_from) to the test case, the direction
\* build_traceability_chain looks for, so the reconstruction seeded with a
\* requirement of a returned graph walks every test case derived from it.
C28_VerifiedByFromRequirement ==
    \A r \in DOMAIN results :
        results[r].status = "success" =>
            /\ \A k \in TestEdgeIdx(results[r]) :
                  /\ HasRequirementNode(results[r], results[r].edges[k].from)
                  /\ \E i \in DOMAIN results[r].nodes :
                        /\ results[r].nodes[i].type = "TEST_CASE"
                        /\ results[r].nodes[i].id = results[r].edges[k].to
            /\ \A d \in DOMAIN test_cases :
                  (DraftIds[d].first
                     /\ HasRequirementNode(results[r], test_cases[d].derived_from))
                  => DraftIds[d].id
                        \in VerifiedTests(test_cases[d].derived_from, AsSnapshot(results[r]))

(***************************************************************************)
(* Properties of the records of detect_compliance_standards in the builder *)
(***************************************************************************)

\* the canonical ids of the detected_compliance entries of a chunk list that
\* have the form of the detector's records {name, canonical_id}
DetectorCanonicalIds(cs) ==
    UNION { {cs[c].detected_compliance[k].canonical_id :
                k \in {h \in DOMAIN cs[c].detected_compliance :
                          /\ cs[c].detected_compliance[h].canonical_id # Missing
                          /\ cs[c].detected_compliance[h].name # Missing}} :
            c \in DOMAIN cs }

\* C27: the builder keys a detected_compliance entry that is a record of the
\* detector by the record's canonical id: the returned graph has exactly one
\* COMPLIANCE_STANDARD node titled with that canonical id, so two regimes
\* detected on a page are two nodes, and it is the node the relationship edges
\* that target this canonical id point to.
C27_DetectorRecordsKeyedByCanonicalId ==
    \A r \in DOMAIN results :
        results[r].status = "success" =>
            \A canon \in DetectorCanonicalIds(chunks) :
                Cardinality({i \in DOMAIN results[r].nodes :
                                   /\ results[r].nodes[i].type = "COMPLIANCE_STANDARD"
                                   /\ results[r].nodes[i].title = canon}) = 1

(***************************************************************************)
(* Calls of build_knowledge_graph_from_rag in flight at the same time      *)
(*                                                                         *)
(* Every call has its own frame: nodes, edges and the three seen maps are  *)
(* locals created in the call, and compliance_normalization and            *)
(* normalize_compliance_id are created in the call as well.  The module    *)
(* has no module-level state.  The steps of different calls interleave in  *)
(* any order.                                                              *)
(***************************************************************************)

\* a plausible slip: the seen maps live at module level, so a call starts with
\* what another call left in them
LocalsLeftByOtherCalls(run) ==
    LET o == CHOOSE x \in DOMAIN runs : x # run
    IN  [nodes |-> <<>>, edges |-> <<>>,
         seen_requirements |-> runs[o].seen_requirements,
         seen_compliance |-> runs[o].seen_compliance,
         seen_test_cases |-> runs[o].seen_test_cases]

\* the locals of a call as lines 40-44 create them
FreshLocals(run) ==
    [nodes |-> <<>>, edges |-> <<>>, seen_requirements |-> {},
     seen_compliance |-> EmptyDict, seen_test_cases |-> {}]

\* the arguments of the calls: no chunks, the two-chunk example with a test
\* case, and two one-chunk documents that mention other regimes and share a
\* requirement id
RunInputs ==
    { [chunks |-> <<>>, test_cases |-> <<>>],
      [chunks |-> ExampleChunks, test_cases |-> <<TestCaseTC1>>],
      [chunks |-> <<Chunk(<<Req("REQ-001", ReqTextCritical)>>,
                          <<CompEntity("HIPAA", Missing, Missing, Missing)>>,
                          <<Rel("REQ-001", "ccpa", "COMPLIANCE_STANDARD", "GOVERNED_BY", Missing)>>)>>,
       test_cases |-> <<TestCase(Missing, "REQ-001")>>],
      [chunks |-> <<Chunk(<<Req("REQ-002", ReqTextPlain)>>,
                          <<CompEntity("SOC2", Missing, Missing, Missing)>>,
                          <<Rel("REQ-002", "GDPR", "COMPLIANCE_STANDARD", "GOVERNED_BY", Missing)>>)>>,
       test_cases |-> <<>>] }

\* a call that was not made yet
NotCalled(input) ==
    [chunks |-> input.chunks, test_cases |-> input.test_cases, pc |-> "idle", chunk_i |-> 0,
     nodes |-> <<>>, edges |-> <<>>, seen_requirements |-> {}, seen_compliance |-> EmptyDict,
     seen_test_cases |-> {}, met |-> {}, result |-> <<>>]

\* the calls that are between their first step and their return
InFlight == {o \in DOMAIN runs : runs[o].pc \notin {"idle", "done"}}

InitRuns ==
    /\ runs \in [1..MaxRuns -> {NotCalled(input) : input \in RunInputs}]
    /\ IdleKG /\ IdleNorm /\ IdleDet /\ IdleBox /\ IdleExp /\ IdleFtb /\ IdleChain /\ IdleTrace /\ IdlePipe

\* a call with no chunks returns the error dict at once
RunCallNoChunks(run) ==
    /\ runs[run].pc = "idle" /\ runs[run].chunks = <<>>
    /\ runs' = [runs EXCEPT ![run].pc = "done", ![run].met = InFlight,
                            ![run].result = <<ErrorResult>>]
    /\ UNCHANGED <<kgVars, normVars, detVars, boxVars, expVars, ftbVars, chainVars, traceVars, pipeVars>>

\* a call with chunks creates its locals and enters the chunk loop; met records
\* the calls in flight at that moment
RunCallStart(run) ==
    /\ runs[run].pc = "idle" /\ runs[run].chunks # <<>>
    /\ LET l == FreshLocals(run)
       IN  runs' = [runs EXCEPT ![run].pc = "requirements", ![run].chunk_i = 1,
                                ![run].met = InFlight,
                                ![run].nodes = l.nodes, ![run].edges = l.edges,
                                ![run].seen_requirements = l.seen_requirements,
                                ![run].seen_compliance = l.seen_compliance,
                                ![run].seen_test_cases = l.seen_test_cases]
    /\ UNCHANGED <<kgVars, normVars, detVars, boxVars, expVars, ftbVars, chainVars, traceVars, pipeVars>>

RunStepRequirements(run) ==
    /\ runs[run].pc = "requirements"
    /\ LET f == runs[run]
           c == f.chunks[f.chunk_i]
           r == AddRequirementNodes(c.detected_requirements, 1, c.page_number,
                                    f.nodes, f.seen_requirements)
       IN  runs' = [runs EXCEPT ![run].nodes = r.nodes, ![run].seen_requirements = r.seen,
                                ![run].pc = "detected_compliance"]
    /\ UNCHANGED <<kgVars, normVars, detVars, boxVars, expVars, ftbVars, chainVars, traceVars, pipeVars>>

RunStepDetectedCompliance(run) ==
    /\ runs[run].pc = "detected_compliance"
    /\ LET f == runs[run]
           c == f.chunks[f.chunk_i]
           r == AddDetectedCompliance(c.detected_compliance, 1, c.page_number,
                                      f.nodes, f.seen_compliance)
       IN  runs' = [runs EXCEPT ![run].nodes = r.nodes, ![run].seen_compliance = r.seen,
                                ![run].pc = "relationship_targets"]
    /\ UNCHANGED <<kgVars, normVars, detVars, boxVars, expVars, ftbVars, chainVars, traceVars, pipeVars>>

RunStepRelationshipTargets(run) ==
    /\ runs[run].pc = "relationship_targets"
    /\ LET f == runs[run]
           c == f.chunks[f.chunk_i]
           r == AddRelationshipTargets(c.relationships, 1, c.page_number,
                                       f.nodes, f.seen_compliance)
       IN  runs' = [runs EXCEPT ![run].nodes = r.nodes, ![run].seen_compliance = r.seen,
                                ![run].pc = "relationship_edges"]
    /\ UNCHANGED <<kgVars, normVars, detVars, boxVars, expVars, ftbVars, chainVars, traceVars, pipeVars>>

RunStepRelationshipEdges(run) ==
    /\ runs[run].pc = "relationship_edges"
    /\ LET f == runs[run]
           c == f.chunks[f.chunk_i]
           es == AddRelationshipEdges(c.relationships, 1, c.page_number,
                                      f.edges, f.seen_compliance)
       IN  runs' = [runs EXCEPT ![run].edges = es,
                                ![run].chunk_i = IF f.chunk_i < Len(f.chunks)
                                                 THEN f.chunk_i + 1 ELSE f.chunk_i,
                                ![run].pc = IF f.chunk_i < Len(f.chunks)
                                            THEN "requirements" ELSE "test_cases"]
    /\ UNCHANGED <<kgVars, normVars, detVars, boxVars, expVars, ftbVars, chainVars, traceVars, pipeVars>>

RunStepTestCases(run) ==
    /\ runs[run].pc = "test_cases"
    /\ LET f == runs[run]
           r == AddTestCaseList(f.test_cases, 1, f.nodes, f.edges,
                                f.seen_test_cases, f.seen_requirements)
       IN  runs' = [runs EXCEPT ![run].nodes = r.nodes, ![run].edges = r.edges,
                                ![run].seen_test_cases = r.seen, ![run].pc = "metadata"]
    /\ UNCHANGED <<kgVars, normVars, detVars, boxVars, expVars, ftbVars, chainVars, traceVars, pipeVars>>

RunReturn(run) ==
    /\ runs[run].pc = "metadata"
    /\ LET f == runs[run]
       IN  runs' = [runs EXCEPT ![run].pc = "done",
                        ![run].result = <<[status |-> "success", nodes |-> f.nodes,
                                           edges |-> f.edges,
                                           metadata |-> Metadata(f.nodes, f.edges,
                                                                 f.seen_compliance)]>>]
    /\ UNCHANGED <<kgVars, normVars, detVars, boxVars, expVars, ftbVars, chainVars, traceVars, pipeVars>>

NextRuns ==
    \/ \E run \in DOMAIN runs : RunCallNoChunks(run)
    \/ \E run \in DOMAIN runs : RunCallStart(run)
    \/ \E run \in DOMAIN runs : RunStepRequirements(run)
    \/ \E run \in DOMAIN runs : RunStepDetectedCompliance(run)
    \/ \E run \in DOMAIN runs : RunStepRelationshipTargets(run)
    \/ \E run \in DOMAIN runs : RunStepRelationshipEdges(run)
    \/ \E run \in DOMAIN runs : RunStepTestCases(run)
    \/ \E run \in DOMAIN runs : RunReturn(run)

SpecRuns == InitRuns /\ [][NextRuns]_vars

(***************************************************************************)
(* Properties of calls in flight at the same time                          *)
(***************************************************************************)

RECURSIVE FoldAlone(_, _, _)
\* the chunk loop of a call that is the only one of the process, from chunk k on
FoldAlone(cs, k, st) ==
    IF k > Len(cs) THEN st
    ELSE LET c == cs[k]
             a == AddRequirementNodes(c.detected_requirements, 1, c.page_number,
                                      st.nodes, st.seen_requirements)
             b == AddDetectedCompliance(c.detected_compliance, 1, c.page_number,
                                        a.nodes, st.seen_compliance)
             t == AddRelationshipTargets(c.relationships, 1, c.page_number, b.nodes, b.seen)
             es == AddRelationshipEdges(c.relationships, 1, c.page_number, st.edges, t.seen)
         IN  FoldAlone(cs, k + 1,
                       [nodes |-> t.nodes, edges |-> es, seen_requirements |-> a.seen,
                        seen_compliance |-> t.seen])

\* what the call returns when it is the only call of the process
RunAlone(cs, tcs) ==
    IF cs = <<>> THEN ErrorResult
    ELSE LET st == FoldAlone(cs, 1, [nodes |-> <<>>, edges |-> <<>>,
                                     seen_requirements |-> {}, seen_compliance |-> EmptyDict])
             r == AddTestCaseList(tcs, 1, st.nodes, st.edges, {}, st.seen_requirements)
         IN  [status |-> "success", nodes |-> r.nodes, edges |-> r.edges,
              metadata |-> Metadata(r.nodes, r.edges, st.seen_compliance)]

\* the requirement ids of a chunk list
RequirementIds(cs) ==
    UNION { {cs[c].detected_requirements[k].id : k \in DOMAIN cs[c].detected_requirements} :
            c \in DOMAIN cs }

\* C29: calls of the builder made one after another or interleaved share no
\* dedup state: what a call returns is what it returns as the only call of the
\* process, its minted compliance ids start at COMP_001, and its REQUIREMENT
\* nodes are requirements of its own chunks.
C29_RunsIndependent ==
    \A run \in DOMAIN runs :
        runs[run].result # <<>> =>
            LET g == runs[run].result[1]
            IN  /\ g = RunAlone(runs[run].chunks, runs[run].test_cases)
                /\ (\E i \in DOMAIN g.nodes : g.nodes[i].type = "COMPLIANCE_STANDARD")
                     => \E i \in DOMAIN g.nodes : g.nodes[i].id = "COMP_001"
                /\ \A i \in DOMAIN g.nodes :
                      g.nodes[i].type = "REQUIREMENT"
                        => g.nodes[i].id \in RequirementIds(runs[run].chunks)

\* a call that started while another call, on another document that mentions
\* other regimes, was in its chunk loop, has returned a graph with minted ids
C29_Witness ==
    \E run \in DOMAIN runs :
        /\ runs[run].result # <<>> /\ runs[run].result[1].status = "success"
        /\ \E i \in DOMAIN runs[run].result[1].nodes :
              runs[run].result[1].nodes[i].id = "COMP_002"
        /\ \E o \in runs[run].met :
              /\ runs[o].chunks # runs[run].chunks
              /\ runs[o].result # <<>>
              /\ \E i \in DOMAIN runs[o].result[1].nodes :
                    runs[o].result[1].nodes[i].type = "COMPLIANCE_STANDARD"

(***************************************************************************)
(* Properties of the line merge of find_text_bounding_box                  *)
(***************************************************************************)

\* the lines of the call that have a polygon and hold at least 20% of the
\* target's distinct words
SignificantLines ==
    LET lines == SelectSeq(ftb_args.page_layout_elements, is_line_element)
    IN  {lines[k] : k \in {h \in DOMAIN lines :
                              HasPolygon(lines[h]) /\ HoldsShare(lines[h], LineOverlapPct)}}

\* no paragraph with a polygon holds 70% of the target's words
NoParagraphQualifies ==
    \A k \in DOMAIN ftb_args.page_layout_elements :
        LET el == ftb_args.page_layout_elements[k]
        IN  ~(is_paragraph_element(el) /\ HasPolygon(el) /\ HoldsShare(el, ParagraphOverlapPct))

\* rectangle inner lies inside rectangle outer
Inside(inner, outer) ==
    /\ outer.x_min <= inner.x_min /\ inner.x_max <= outer.x_max
    /\ outer.y_min <= inner.y_min /\ inner.y_max <= outer.y_max

\* C24: when no paragraph qualifies and some line does, the rectangle returned
\* is the component-wise merge of the envelopes of exactly the lines that have a
\* polygon and hold at least 20% of the target's distinct words: every such
\* line lies inside it, and each of its sides is the side of such a line, so no
\* line below 20% contributes.
C24_LineMergeIsExact ==
    (/\ ftb_out # <<>>
     /\ ftb_args.target_text # "" /\ ftb_args.page_layout_elements # <<>>
     /\ NoParagraphQualifies /\ SignificantLines # {}) =>
        /\ ftb_out[1] # None
        /\ \A line \in SignificantLines : Inside(get_bounding_poly(line), ftb_out[1])
        /\ \A key \in {"x_min", "y_min", "x_max", "y_max"} :
              \E line \in SignificantLines : get_bounding_poly(line)[key] = ftb_out[1][key]

\* two lines of the requirement are merged while a line that shares no word
\* with it and reaches further right is on the page
C24_Witness ==
    /\ ftb_out # <<>>
    /\ ftb_args.target_text = FtbTarget
    /\ ftb_args.page_layout_elements = <<LineOther, LineSecond, LineOne>>
    /\ ftb_out[1] = [x_min |-> 1, y_min |-> 1, x_max |-> 9, y_max |-> 3]

(***************************************************************************)
(* Properties of the continuation test on sentences that begin with a      *)
(* capital letter                                                          *)
(***************************************************************************)

\* the sentence begins with a listed conjunction, pronoun or linking adverb in
\* any letter case (the word ends where the letters end)
BeginsWithListedWord(sentence) ==
    \E w \in Conjunctions \cup Pronouns \cup Adverbs :
        /\ StartsWith(Lower(sentence), w)
        /\ ~InClass(Ch(Lower(sentence), Len(w) + 1), LowerLetters)

\* a sentence that is no section break, begins with an uppercase letter and
\* does not begin with a listed word
PlainCapitalSentence(sentence) ==
    LET s == Strip(sentence)
    IN  /\ s # "" /\ ~IsSectionBreak(s)
        /\ InClass(Ch(s, 1), UpperLetters)
        /\ ~BeginsWithListedWord(s)

\* C25: a next sentence that is no section break, begins with an uppercase
\* letter and does not begin with a listed conjunction, pronoun or linking
\* adverb carries no continuation signal: is_continuation_sentence answers
\* false for it, and an expansion that located the sentence before it stops
\* there.
C25_CapitalSentenceIsNoContinuation ==
    exp_outs # <<>> =>
        \A k \in 2..Len(ExpSentences) :
            PlainCapitalSentence(ExpSentences[k]) =>
                /\ ~is_continuation_sentence(ExpSentences[k - 1], ExpSentences[k])
                /\ ExpIdx = k - 1 =>
                      \/ exp_outs[1] = Strip(exp_args.initial_sentence)
                      \/ exp_outs[1] = NormalizeSpaces(ExpSentences[ExpIdx])

(***************************************************************************)
(* Properties of the triggers of detect_requirements                       *)
(***************************************************************************)

\* the sentences the sentence loop scans on a page: the stripped sentences of
\* at least 15 characters of the stripped lines of at least 10 characters
ScannedSentences(text) ==
    LET lines == SplitLines(text)
        kept  == {Strip(lines[k]) : k \in {h \in DOMAIN lines : Len(Strip(lines[h])) >= MinLineLen}}
    IN  UNION { {Strip(SplitSentences(line)[k]) :
                    k \in {h \in DOMAIN SplitSentences(line) :
                              Len(Strip(SplitSentences(line)[h])) >= MinSentenceLen}} :
                line \in kept }

\* the trigger the priority order modal verb, gated action verb, list marker
\* gives a sentence ("NONE" when none applies)
FirstTrigger(sentence) ==
    IF HasModal(sentence) THEN "MODAL_VERB"
    ELSE IF HasAction(sentence) /\ HasContextKeyword(sentence) THEN "ACTION_VERB"
    ELSE IF IsBullet(sentence) /\ Len(sentence) > MinBulletLen THEN "BULLET_POINT"
    ELSE "NONE"

\* the confidence fixed by the type
ConfidenceOfType(type) ==
    CASE type = "SECTION_HEADER" -> HeaderConfidence
      [] type = "MODAL_VERB"     -> ModalConfidence
      [] type = "ACTION_VERB"    -> ActionConfidence
      [] type = "BULLET_POINT"   -> BulletConfidence

\* C26: every scanned sentence is classified by the first trigger that applies
\* in the order modal verb, action verb gated by the keyword filter, list
\* marker: a sentence with a trigger is reported with that type (a sentence with
\* a list marker and more than 15 characters, no modal verb and no gated action
\* verb as BULLET_POINT), a call returns at most one requirement per scanned
\* sentence and section header, and the confidence is fixed by the type.
C26_FirstTriggerClassifies ==
    \A p \in DOMAIN doc_requirements :
        LET reqs == doc_requirements[p]
            scanned == ScannedSentences(pages[p])
        IN  /\ \A s \in scanned :
                  FirstTrigger(s) # "NONE" =>
                      \E k \in DOMAIN reqs :
                          /\ reqs[k].type = FirstTrigger(s)
                          /\ reqs[k].text = Expanded(s, pages[p])
            /\ \A k \in DOMAIN reqs : reqs[k].confidence = ConfidenceOfType(reqs[k].type)
            /\ Cardinality({k \in DOMAIN reqs : reqs[k].type # "SECTION_HEADER"})
                 <= Len(Flatten([l \in DOMAIN SplitLines(pages[p]) |->
                                    SplitSentences(Strip(SplitLines(pages[p])[l]))], 1))

(***************************************************************************)
(* The upload pipeline: mask_chunks_with_dlp (parallel batches),           *)
(* query_rag_from_chunks (one parallel gather) and then the graph builder  *)
(***************************************************************************)

\* chunks given to one asyncio.gather of the DLP step
batch_size == 5

\* pages of the uploaded document
MaxPipeChunks == 6

\* the text of page k as Document AI hands it over; some pages name a mailbox
PipePageText(k, with_mail) ==
    "Mail report " \o DecStr(k)
      \o (IF with_mail THEN " to qa" \o DecStr(k) \o "@example.com" ELSE "")

\* the edge extract_traceable_docai makes of a requirement and a regime of one page
DocaiEdge(source, target, page) ==
    [source |-> source, target |-> target, target_type |-> "compliance_standard",
     relationship |-> "REQUIRES_COMPLIANCE", confidence |-> 70, page |-> page]

\* the chunk extract_traceable_docai makes of page k: one chunk per page, named
\* after the page; a blank page has no requirement, no regime and no link
DocaiChunk(k, kind) ==
    LET blank == kind = "blank"
        req   == Req("REQ-" \o Pad3(k), PipePageText(k, kind = "mail"))
        comp  == CompEntity(Missing, Missing, "HIPAA", "HIPAA:45-CFR-164")
        regime == ~blank /\ k % 2 = 1
    IN  [ chunk_id              |-> "chunk_" \o Pad3(k),
          page_number           |-> k,
          text                  |-> IF blank THEN "" ELSE PipePageText(k, kind = "mail"),
          detected_requirements |-> IF blank THEN <<>> ELSE <<req>>,
          detected_compliance   |-> IF regime THEN <<comp>> ELSE <<>>,
          trace_links           |-> IF regime
                                    THEN <<DocaiEdge(req.id, comp.canonical_id, k)>>
                                    ELSE <<>>,
          relationships         |-> <<>>,
          masked_text           |-> Missing,
          original_text         |-> Missing,
          embedding_ready_text  |-> Missing,
          node_id               |-> Missing,
          pii_found             |-> FALSE,
          pii_count             |-> 0,
          pii_types             |-> <<>> ]

\* what the services do during one request, per chunk.  DLP: "ok", "error" (the
\* call fails and the coroutine catches it) or "raise" (an exception leaves the
\* coroutine).  RAG: "ok" or "raise".
CleanCalls(n) == [dlp |-> [k \in 1..n |-> "ok"], rag |-> [k \in 1..n |-> "ok"]]

FaultyCalls(n) ==
    [dlp |-> [k \in 1..n |-> IF k = 2 THEN "raise" ELSE IF k = n THEN "error" ELSE "ok"],
     rag |-> [k \in 1..n |-> IF k = 1 THEN "raise" ELSE "ok"]]

\* the requests: a document of n pages in page order (even pages name a mailbox,
\* page 3 of the faulty request is blank), the GDPR switch, the services' behaviour
PipeRequests ==
    { [chunks    |-> [k \in 1..n |-> DocaiChunk(k, IF k % 2 = 0 THEN "mail"
                                                   ELSE IF k = 3 /\ faulty THEN "blank"
                                                   ELSE "plain")],
       gdpr_mode |-> gdpr_mode,
       calls     |-> IF faulty THEN FaultyCalls(n) ELSE CleanCalls(n)] :
      n \in 1..MaxPipeChunks, gdpr_mode \in BOOLEAN, faulty \in BOOLEAN }

\* result dict of a DLP coroutine
DlpResult(masked_text, pii_count, pii_types) ==
    [masked_text |-> masked_text, pii_found |-> pii_count > 0 \/ pii_types # <<>>,
     pii_count |-> pii_count, pii_types |-> pii_types]

\* an exception object, as asyncio.gather(return_exceptions=True) hands it back
Raised(message) == [exception |-> message]

IsException(result) == "exception" \in DOMAIN result

\* the DLP service with ReplaceWithInfoTypeConfig: every finding is replaced by
\* the name of its info type (the findings of the model are the mail addresses)
deidentify_content(text) ==
    LET ws   == Words(text)
        hits == {k \in DOMAIN ws : Contains(ws[k], "@")}
    IN  DlpResult(Join([k \in DOMAIN ws |-> IF k \in hits THEN "[EMAIL_ADDRESS]" ELSE ws[k]],
                       " "),
                  Cardinality(hits),
                  IF hits = {} THEN <<>> ELSE <<"EMAIL_ADDRESS">>)

\* _process_single_chunk_with_dlp_async: what the coroutine of one chunk ends with
process_single_chunk_with_dlp_async(chunk, call) ==
    IF call = "raise" THEN Raised("DLP task failed")
    ELSE IF Strip(chunk.text) = "" THEN DlpResult("", 0, <<>>)
    ELSE IF call = "error" THEN DlpResult(chunk.text, 0, <<>>)
    ELSE deidentify_content(chunk.text)

\* the text the RAG step queries with
RagText(chunk) == IF chunk.masked_text = Missing THEN chunk.text ELSE chunk.masked_text

\* the context document of a chunk.  The branches that answer without a query
\* (no text, an exception handed back by gather) write no page_number and read
\* the requirement_entities key, which the chunks of Document AI do not have.
ContextDoc(chunk, queried, rag_response) ==
    [chunk_id |-> chunk.chunk_id,
     page_number |-> IF queried THEN chunk.page_number ELSE 0,
     text |-> RagText(chunk),
     original_text |-> IF chunk.original_text = Missing THEN RagText(chunk)
                       ELSE chunk.original_text,
     requirement_entities |-> IF queried THEN chunk.detected_requirements ELSE <<>>,
     compliance_entities |-> IF queried THEN chunk.detected_compliance ELSE <<>>,
     pii_found |-> chunk.pii_found, pii_types |-> chunk.pii_types,
     rag_response |-> rag_response]

\* process_chunk_with_rag: what the coroutine of one chunk ends with
process_chunk_with_rag(chunk, call) ==
    IF call = "raise" THEN Raised("RAG task failed")
    ELSE IF Strip(RagText(chunk)) = "" THEN ContextDoc(chunk, FALSE, "No text to process")
    ELSE ContextDoc(chunk, TRUE, "RAG query successful")

\* the coroutine objects of a gather: the chunk each was made for, its place in
\* the order of completion (0 while it runs) and what it ended with
NewTask(chunk_index) == [chunk |-> chunk_index, rank |-> 0, result |-> None]

Finished(ts) == {j \in DOMAIN ts : ts[j].rank > 0}

\* the results in the order in which the tasks ended
ResultsAsCompleted(ts) ==
    [k \in DOMAIN ts |-> ts[CHOOSE j \in DOMAIN ts : ts[j].rank = k].result]

\* await asyncio.gather(*tasks, return_exceptions=True): the results in the
\* order of the awaitables, an exception in the place of its task
gather(ts) == [j \in DOMAIN ts |-> ts[j].result]

\* the entry DLP puts in the place of a task that raised
DlpErrorResult == DlpResult("[DLP ERROR - Original text preserved]", 0, <<>>)

\* the loop over batch_results of process_chunks_with_dlp_async
HandleDlpExceptions(batch_results) ==
    [j \in DOMAIN batch_results |->
        IF IsException(batch_results[j]) THEN DlpErrorResult ELSE batch_results[j]]

\* the loop over context_docs of query_rag_from_chunks
HandleRagExceptions(context_docs, cs) ==
    [i \in DOMAIN context_docs |->
        IF IsException(context_docs[i])
        THEN ContextDoc(cs[i], FALSE, "Error: " \o context_docs[i].exception)
        ELSE context_docs[i]]

\* chunk["embedding_ready_text"] (the texts of the model hold no line break)
EmbeddingReady(masked_text) == Strip(Lower(masked_text))

\* the merge of one DLP result into its chunk; original_text stays only with PII
MergeMasked(chunk, masked_result) ==
    [chunk EXCEPT !.masked_text = masked_result.masked_text,
                  !.pii_found = masked_result.pii_found,
                  !.pii_count = masked_result.pii_count,
                  !.pii_types = masked_result.pii_types,
                  !.original_text = IF masked_result.pii_found THEN chunk.text ELSE Missing,
                  !.embedding_ready_text = EmbeddingReady(masked_result.masked_text)]

\* the merge when GDPR mode is off: the text is kept as it is
MergeUnmasked(chunk) == MergeMasked(chunk, DlpResult(chunk.text, 0, <<>>))

\* the relationships made of a chunk's trace_links, which are then deleted (the
\* fallback to the document's edges of the page finds none when there is no link)
WithRelationships(chunk) ==
    [chunk EXCEPT
       !.node_id = "NODE_" \o chunk.chunk_id,
       !.relationships =
          [k \in DOMAIN chunk.trace_links |->
             LET edge == chunk.trace_links[k]
             IN  [ edge_id      |-> "EDGE_" \o chunk.chunk_id \o "_" \o Pad3(k),
                   source_id    |-> edge.source,
                   target_id    |-> edge.target,
                   type         |-> edge.relationship,
                   target_class |-> IF Contains(Lower(edge.target_type), "compliance")
                                    THEN "COMPLIANCE_STANDARD" ELSE edge.target_type,
                   confidence   |-> edge.confidence,
                   page         |-> edge.page ]],
       !.trace_links = <<>>]

\* a task ended before a task made earlier in the same gather
Overtakes(ts, j) == \E e \in DOMAIN ts : e < j /\ ts[e].rank = 0

InitPipe ==
    /\ \E request \in PipeRequests :
          pipe = [ chunks       |-> request.chunks,
                   gdpr_mode    |-> request.gdpr_mode,
                   calls        |-> request.calls,
                   pc           |-> "dlp",
                   i            |-> 0,
                   all_results  |-> <<>>,
                   context_docs |-> <<>>,
                   overtaken    |-> {},
                   kg_result    |-> <<>> ]
    /\ tasks = <<>>
    /\ IdleKG /\ IdleNorm /\ IdleDet /\ IdleBox /\ IdleExp /\ IdleFtb /\ IdleChain /\ IdleTrace /\ IdleRuns

\* GDPR mode off: no task is made, the chunks keep their text
MaskSkipped ==
    /\ pipe.pc = "dlp" /\ ~pipe.gdpr_mode
    /\ pipe' = [pipe EXCEPT !.pc = "rag",
                            !.chunks = [k \in DOMAIN pipe.chunks |->
                                           WithRelationships(MergeUnmasked(pipe.chunks[k]))]]
    /\ UNCHANGED tasks
    /\ UNCHANGED <<kgVars, normVars, detVars, boxVars, expVars, ftbVars, chainVars, traceVars, runsVars>>

\* one turn of the batch loop up to its await: a coroutine per chunk of the batch
DlpBatchStart ==
    /\ pipe.pc = "dlp" /\ pipe.gdpr_mode /\ tasks = <<>>
    /\ pipe.i < Len(pipe.chunks)
    /\ LET last == IF pipe.i + batch_size < Len(pipe.chunks)
                   THEN pipe.i + batch_size ELSE Len(pipe.chunks)
       IN  tasks' = [j \in 1..(last - pipe.i) |-> NewTask(pipe.i + j)]
    /\ UNCHANGED pipe
    /\ UNCHANGED <<kgVars, normVars, detVars, boxVars, expVars, ftbVars, chainVars, traceVars, runsVars>>

\* a DLP coroutine ends, in any order among those of its batch
DlpTaskCompletes(j) ==
    /\ pipe.pc = "dlp" /\ j \in DOMAIN tasks /\ tasks[j].rank = 0
    /\ tasks' = [tasks EXCEPT
                   ![j].rank = Cardinality(Finished(tasks)) + 1,
                   ![j].result = process_single_chunk_with_dlp_async(
                                     pipe.chunks[tasks[j].chunk], pipe.calls.dlp[tasks[j].chunk])]
    /\ pipe' = [pipe EXCEPT !.overtaken = IF Overtakes(tasks, j) THEN @ \cup {"dlp"} ELSE @]
    /\ UNCHANGED <<kgVars, normVars, detVars, boxVars, expVars, ftbVars, chainVars, traceVars, runsVars>>

\* the gather of a batch returns; its results are appended to all_results
DlpBatchGather ==
    /\ pipe.pc = "dlp" /\ tasks # <<>> /\ Finished(tasks) = DOMAIN tasks
    /\ pipe' = [pipe EXCEPT !.all_results = @ \o HandleDlpExceptions(gather(tasks)),
                            !.i = @ + batch_size]
    /\ tasks' = <<>>
    /\ UNCHANGED <<kgVars, normVars, detVars, boxVars, expVars, ftbVars, chainVars, traceVars, runsVars>>

\* mask_chunks_with_dlp after its await: result i is merged into chunk i
DlpMerge ==
    /\ pipe.pc = "dlp" /\ pipe.gdpr_mode /\ tasks = <<>>
    /\ pipe.i >= Len(pipe.chunks)
    /\ pipe' = [pipe EXCEPT !.pc = "rag",
                            !.chunks = [k \in DOMAIN pipe.chunks |->
                                          WithRelationships(
                                            MergeMasked(pipe.chunks[k], pipe.all_results[k]))]]
    /\ UNCHANGED tasks
    /\ UNCHANGED <<kgVars, normVars, detVars, boxVars, expVars, ftbVars, chainVars, traceVars, runsVars>>

\* query_rag_from_chunks up to its await: a coroutine per chunk, all in one gather
RagStart ==
    /\ pipe.pc = "rag" /\ tasks = <<>> /\ pipe.context_docs = <<>>
    /\ tasks' = [j \in DOMAIN pipe.chunks |-> NewTask(j)]
    /\ UNCHANGED pipe
    /\ UNCHANGED <<kgVars, normVars, detVars, boxVars, expVars, ftbVars, chainVars, traceVars, runsVars>>

\* a RAG coroutine ends, in any order
RagTaskCompletes(j) ==
    /\ pipe.pc = "rag" /\ j \in DOMAIN tasks /\ tasks[j].rank = 0
    /\ tasks' = [tasks EXCEPT
                   ![j].rank = Cardinality(Finished(tasks)) + 1,
                   ![j].result = process_chunk_with_rag(
                                     pipe.chunks[tasks[j].chunk], pipe.calls.rag[tasks[j].chunk])]
    /\ pipe' = [pipe EXCEPT !.overtaken = IF Overtakes(tasks, j) THEN @ \cup {"rag"} ELSE @]
    /\ UNCHANGED <<kgVars, normVars, detVars, boxVars, expVars, ftbVars, chainVars, traceVars, runsVars>>

\* the gather of the RAG step returns; rag_result carries the chunk list itself
RagGather ==
    /\ pipe.pc = "rag" /\ tasks # <<>> /\ Finished(tasks) = DOMAIN tasks
    /\ pipe' = [pipe EXCEPT !.context_docs = HandleRagExceptions(gather(tasks), pipe.chunks),
                            !.pc = "kg"]
    /\ tasks' = <<>>
    /\ UNCHANGED <<kgVars, normVars, detVars, boxVars, expVars, ftbVars, chainVars, traceVars, runsVars>>

\* step 4: build_knowledge_graph_from_rag(rag_result), a plain function with no
\* await in it, so nothing else of the event loop runs before it returns
BuildGraph ==
    /\ pipe.pc = "kg"
    /\ pipe' = [pipe EXCEPT !.kg_result = <<RunAlone(pipe.chunks, <<>>)>>, !.pc = "done"]
    /\ UNCHANGED tasks
    /\ UNCHANGED <<kgVars, normVars, detVars, boxVars, expVars, ftbVars, chainVars, traceVars, runsVars>>

NextPipe ==
    \/ MaskSkipped
    \/ DlpBatchStart
    \/ \E j \in DOMAIN tasks : DlpTaskCompletes(j)
    \/ DlpBatchGather
    \/ DlpMerge
    \/ RagStart
    \/ \E j \in DOMAIN tasks : RagTaskCompletes(j)
    \/ RagGather
    \/ BuildGraph

SpecPipe == InitPipe /\ [][NextPipe]_vars

\* the masking result of chunk k of the request, computed from that chunk alone
OwnMaskingResult(k) ==
    LET r == process_single_chunk_with_dlp_async(pipe.chunks[k], pipe.calls.dlp[k])
    IN  IF IsException(r) THEN DlpErrorResult ELSE r

\* the pages named by a list of dicts never go down
InPageOrder(list, field) ==
    \A a, b \in DOMAIN list : a < b => list[a][field] <= list[b][field]

\* C23: whatever the order in which the parallel DLP and RAG tasks end, the
\* chunk list stays in page order, each chunk gets the masking result (or the
\* failure entry) computed for that same chunk, each context document is the
\* one of the chunk in its place, and the graph exists only once every task
\* has ended and every result is collected; it is the graph of one sequential
\* pass over the chunks, with its nodes and edges in page order.
C23_ParallelResultsInPlace ==
    LET cs == pipe.chunks
    IN  /\ \A a, b \in DOMAIN cs : a < b => cs[a].page_number < cs[b].page_number
        /\ (pipe.pc \in {"rag", "kg", "done"} /\ pipe.gdpr_mode) =>
              \A k \in DOMAIN cs :
                 LET own == OwnMaskingResult(k)
                 IN  /\ cs[k].masked_text = own.masked_text
                     /\ cs[k].pii_found = own.pii_found
                     /\ cs[k].pii_count = own.pii_count
        /\ (pipe.pc \in {"rag", "kg", "done"} /\ ~pipe.gdpr_mode) =>
              \A k \in DOMAIN cs : cs[k].masked_text = cs[k].text
        /\ pipe.pc \in {"kg", "done"} =>
              /\ Len(pipe.context_docs) = Len(cs)
              /\ \A k \in DOMAIN cs :
                    /\ pipe.context_docs[k].chunk_id = cs[k].chunk_id
                    /\ pipe.context_docs[k].text = cs[k].masked_text
        /\ tasks # <<>> => pipe.kg_result = <<>>
        /\ pipe.kg_result # <<>> =>
              /\ pipe.pc = "done" /\ tasks = <<>>
              /\ pipe.gdpr_mode => Len(pipe.all_results) = Len(cs)
              /\ pipe.kg_result[1] = RunAlone(cs, <<>>)
              /\ InPageOrder(pipe.kg_result[1].nodes, "page_number")
              /\ InPageOrder(pipe.kg_result[1].edges, "page")

\* a document of two batches was masked and queried with tasks ending out of
\* order in both steps, a DLP task and a RAG task raised, a mail address was
\* masked, and the graph was built
C23_Witness ==
    /\ pipe.pc = "done" /\ pipe.gdpr_mode /\ pipe.kg_result # <<>>
    /\ Len(pipe.chunks) > batch_size
    /\ pipe.overtaken = {"dlp", "rag"}
    /\ pipe.chunks[2].masked_text = DlpErrorResult.masked_text
    /\ pipe.chunks[4].masked_text = "Mail report 4 to [EMAIL_ADDRESS]"
    /\ pipe.chunks[4].pii_found
    /\ pipe.context_docs[1].rag_response = "Error: RAG task failed"
    /\ pipe.kg_result[1].status = "success"

====
